---- MODULE Spec2Model ----
(***************************************************************************)
(* ScamScreener relay: the upload authentication pipeline, the nonce       *)
(* ledger and the invite redemption transaction, as state machines over    *)
(* the four tables of migrations/001_init.sql.                             *)
(*                                                                         *)
(* Steps.  better-sqlite3 is synchronous, so a handler runs without        *)
(* interruption from one await to the next: the upload handler is three   *)
(* steps (entry to the await of payload intake; from there to the call of  *)
(* the forwarder; the forwarder's answer), and requests interleave at the  *)
(* awaits.  The redemption handler awaits nothing; its SELECT and its       *)
(* transaction are two steps all the same, because the atomicity the code  *)
(* takes from the store is that of one statement or transaction, which is  *)
(* what holds when several server processes share the database.            *)
(*                                                                         *)
(* Time: clock counts ticks of Date.now(); TicksPerSecond stands for the   *)
(* 1000 ms of a second, and the configured seconds (clock skew, nonce TTL) *)
(* are the defaults of the configuration divided by 300.                   *)
(***************************************************************************)
EXTENDS Integers, Sequences, FiniteSets, TLC

\* ------------------------------------------------------------- bounds
MaxClock == 4          \* the clock stops advancing at this tick
MaxUploads == 2        \* upload attempts of one run
MaxRedeems == 2        \* redemption attempts of one run
MaxUses == 2           \* largest max_uses of the seeded invite

\* ------------------------------------------------------ configuration
maxClockSkewSeconds == 1   \* DEFAULTS.maxClockSkewSeconds = 300, in units of 300 s
nonceTtlSeconds == 2       \* DEFAULTS.nonceTtlSeconds = 600, in units of 300 s
maxUploadBytes == 2        \* DEFAULTS.maxUploadBytes, scaled to the model's payloads
TicksPerSecond == 2        \* the 1000 ms of a second, scaled

VARIABLES
  clock,          \* Date.now(), in ticks
  clients,        \* table clients: rows [client_id, client_secret, active]
  nonces,         \* table nonces: rows [client_id, nonce, seen_at, expires_at]
  upload_audit,   \* table upload_audit: rows [request_id, client_id, status, error_code]
  invite_codes,   \* table invite_codes: rows [code_hash, max_uses, used_count, expires_at]
  upc,            \* upload attempt -> position in the handler
  ureq,           \* upload attempt -> the request it carries
  uclient,        \* upload attempt -> the clients row read by the identity lookup
  uresp,          \* upload attempt -> the response sent
  persisted,      \* history: upload attempt -> its persistNonce call returned normally
  rivals,         \* history: upload attempt -> the attempts carrying the same
                  \* (clientId, nonce) that were past the replay pre-check and
                  \* before the replay commit when this one passed the pre-check
  fwd,            \* upload attempt -> number of forwarder invocations
  rpc,            \* redemption attempt -> position in the handler
  rreq,           \* redemption attempt -> request body and locals (now, invite, tokens)
  rresp,          \* redemption attempt -> the response sent
  seeded_invites, \* history: the invite_codes table as seeded before the run
  probe           \* the last direct call of a library function: its arguments,
                  \* the ledger before it, and what it returned

vars == <<clock, clients, nonces, upload_audit, invite_codes,
          upc, ureq, uclient, uresp, persisted, rivals, fwd, rpc, rreq, rresp,
          seeded_invites, probe>>

uploadVars == <<upc, ureq, uclient, uresp, persisted, rivals, fwd>>
redeemVars == <<rpc, rreq, rresp, seeded_invites>>

Uploads == 1..MaxUploads
Redeems == 1..MaxRedeems

\* ------------------------------------------------------- time and text
\* Date.prototype.toISOString: fixed-width text, most significant digit first.
toISOString(t) == <<t \div 10, t % 10>>

\* new Date(iso).getTime()
getTime(iso) == iso[1] * 10 + iso[2]

\* Fault variant of TextLeq: the comparison is strict (expires_at < ?).
TextLeq_strict(a, b) == \/ a[1] < b[1]
                        \/ a[1] = b[1] /\ a[2] < b[2]

\* SQLite's comparison of two TEXT values (expires_at <= ?): lexicographic.
TextLeq(a, b) == \/ a[1] < b[1]
                 \/ a[1] = b[1] /\ a[2] <= b[2]

\* Math.floor(Date.now() / 1000)
nowSeconds == clock \div TicksPerSecond

Abs(x) == IF x < 0 THEN -x ELSE x

\* ----------------------------------------------------------------- text
\* A string is a sequence of characters.  The identifiers the pipeline only
\* compares or signs as a whole (client ids, nonces, secrets, the method, the
\* path) are written as one symbol each.
DecimalDigits == <<"0", "1", "2", "3", "4", "5", "6", "7", "8", "9">>
HexDigits == DecimalDigits \o <<"a", "b", "c", "d", "e", "f">>
UpperHexLetters == <<"A", "B", "C", "D", "E", "F">>

\* The symbols of the model and their encoding: the byte of a symbol is its
\* position here (no symbol encodes to the byte 0).
Alphabet ==
  <<"\n">> \o HexDigits \o UpperHexLetters \o
  <<"g", "-", "POST", "GET", "/api/v1/training-uploads", "/other", "v1", "v2",
    "c1", "c2", "c3", "cx", "n1", "n2", "s1", "s2", "s3", "wrong",
    "relay-client-1", "relay-client-2", "relay-secret-1">>

Symbols == {Alphabet[i] : i \in 1..Len(Alphabet)}
ByteTable == [sym \in Symbols |-> CHOOSE i \in 1..Len(Alphabet) : Alphabet[i] = sym]
byteOf(sym) == ByteTable[sym]

\* String.prototype.toLowerCase / toUpperCase
LowerTable ==
  [ch \in Symbols |->
     IF \E i \in 1..Len(UpperHexLetters) : UpperHexLetters[i] = ch
     THEN HexDigits[10 + (CHOOSE i \in 1..Len(UpperHexLetters) : UpperHexLetters[i] = ch)]
     ELSE ch]
lowerChar(ch) == LowerTable[ch]

upperChar(ch) ==
  IF \E i \in 11..16 : HexDigits[i] = ch
  THEN UpperHexLetters[(CHOOSE i \in 11..16 : HexDigits[i] = ch) - 10]
  ELSE ch

toLowerCase(text) == [i \in 1..Len(text) |-> lowerChar(text[i])]
toUpperCase(text) == [i \in 1..Len(text) |-> upperChar(text[i])]

\* The character class [0-9a-fA-F] and the class \d.
HexChars == {ch \in Symbols : \E i \in 1..Len(HexDigits) : HexDigits[i] = lowerChar(ch)}
DigitChars == {DecimalDigits[i] : i \in 1..Len(DecimalDigits)}
isHexChar(ch) == ch \in HexChars
isDigitChar(ch) == ch \in DigitChars

\* /^[0-9a-f]+$/i.test(text)
matchesHex(text) == Len(text) >= 1 /\ \A i \in 1..Len(text) : isHexChar(text[i])

\* /^\d+$/.test(text)
matchesDigits(text) == Len(text) >= 1 /\ \A i \in 1..Len(text) : isDigitChar(text[i])

digitValue(ch) == (CHOOSE i \in 1..Len(DecimalDigits) : DecimalDigits[i] = ch) - 1
NibbleTable ==
  [ch \in HexChars |-> (CHOOSE i \in 1..Len(HexDigits) : HexDigits[i] = lowerChar(ch)) - 1]
nibbleValue(ch) == NibbleTable[ch]

\* Number(text), for a text of decimal digits.
RECURSIVE Number(_)
Number(text) ==
  IF Len(text) = 0 THEN 0
  ELSE 10 * Number(SubSeq(text, 1, Len(text) - 1)) + digitValue(text[Len(text)])

\* String(n): the base-10 rendering of a non-negative integer.
RECURSIVE String(_)
String(n) ==
  IF n < 10 THEN <<DecimalDigits[n + 1]>>
  ELSE String(n \div 10) \o <<DecimalDigits[(n % 10) + 1]>>

\* Array.prototype.join
RECURSIVE join(_, _)
join(parts, separator) ==
  IF Len(parts) = 0 THEN <<>>
  ELSE IF Len(parts) = 1 THEN parts[1]
  ELSE parts[1] \o separator \o join(Tail(parts), separator)

\* Buffer.from(hex, "hex") and Buffer.prototype.toString("hex")
fromHex(hex) ==
  [i \in 1..(Len(hex) \div 2) |-> 16 * nibbleValue(hex[2 * i - 1]) + nibbleValue(hex[2 * i])]

toHex(bytes) ==
  [i \in 1..(2 * Len(bytes)) |->
     IF i % 2 = 1 THEN HexDigits[1 + (bytes[(i + 1) \div 2] \div 16)]
     ELSE HexDigits[1 + (bytes[i \div 2] % 16)]]

\* -------------------------------------------------- security/signature
\* Fault variant of buildCanonicalString: the fields are joined with nothing
\* between them.
buildCanonicalString_noSeparator(input) ==
  join(<< input.method, input.path, input.clientId, input.timestamp, input.nonce,
          input.fileSha256, String(input.fileSizeBytes), input.schemaVersion >>,
       <<>>)

buildCanonicalString(input) ==
  join(<< input.method, input.path, input.clientId, input.timestamp, input.nonce,
          input.fileSha256, String(input.fileSizeBytes), input.schemaVersion >>,
       <<"\n">>)

\* HMAC-SHA256 and SHA-256 are modelled as collision-free digests of fixed
\* width: the input itself, zero-padded to the width of the digest.
MacBytes == 21         \* bytes of an HMAC digest (32 in the code)
HashBytes == 3         \* bytes of a SHA-256 digest (32 in the code)

digest(bytes, width) == bytes \o [i \in 1..(width - Len(bytes)) |-> 0]

\* Fault variant of hmacSha256Hex: the digest is not keyed.
hmacSha256Hex_noKey(secret, canonicalString) ==
  toHex(digest([i \in 1..Len(canonicalString) |-> byteOf(canonicalString[i])],
               MacBytes))

hmacSha256Hex(secret, canonicalString) ==
  toHex(digest(<<byteOf(secret)>>
                 \o [i \in 1..Len(canonicalString) |-> byteOf(canonicalString[i])],
               MacBytes))

sha256Hex(payload) == toHex(digest(payload, HashBytes))

hashInviteCode(inviteCode) == <<"sha256", inviteCode>>

\* Fault variant of timingSafeEqualHex: the lengths are compared, the bytes are not.
timingSafeEqualHex_lengthOnly(expectedHex, providedHex) ==
  /\ matchesHex(expectedHex) /\ matchesHex(providedHex)
  /\ Len(expectedHex) = Len(providedHex) /\ Len(expectedHex) % 2 = 0

\* crypto.timingSafeEqual: throws when the buffers differ in length.
cryptoTimingSafeEqual(a, b) ==
  IF Len(a) # Len(b) THEN "RangeError" ELSE IF a = b THEN "true" ELSE "false"

\* Fault variant of timingSafeEqualHexOutcome: the lengths are not checked.
timingSafeEqualHexOutcome_noLengthCheck(expectedHex, providedHex) ==
  IF ~matchesHex(expectedHex) \/ ~matchesHex(providedHex) THEN "false"
  ELSE cryptoTimingSafeEqual(fromHex(expectedHex), fromHex(providedHex))

\* The body of timingSafeEqualHex: what it returns, or the error it throws.
timingSafeEqualHexOutcome(expectedHex, providedHex) ==
  IF ~matchesHex(expectedHex) \/ ~matchesHex(providedHex) THEN "false"
  ELSE IF Len(expectedHex) # Len(providedHex) \/ Len(expectedHex) % 2 # 0 THEN "false"
  ELSE LET expected == fromHex(expectedHex)
           provided == fromHex(providedHex) IN
       IF Len(expected) # Len(provided) THEN "false"
       ELSE cryptoTimingSafeEqual(expected, provided)

timingSafeEqualHex(expectedHex, providedHex) ==
  timingSafeEqualHexOutcome(expectedHex, providedHex) = "true"

\* The canonical string, the expected digest and the lower-cased signature are
\* each computed once and then compared.
verifySignature(secret, canonicalString, providedSignatureHex) ==
  \E text \in {canonicalString} :
    \E expectedHex \in {hmacSha256Hex(secret, text)} :
      \E providedHex \in {toLowerCase(providedSignatureHex)} :
        timingSafeEqualHex(expectedHex, providedHex)

\* ----------------------------------------------------- security/nonces
\* Fault variant of isTimestampWithinSkew: only a timestamp in the past is
\* measured (the absolute value is missing).
isTimestampWithinSkew_pastOnly(timestampSeconds, nowSecs, maxSkew) ==
  nowSecs - timestampSeconds <= maxSkew

isTimestampWithinSkew(timestampSeconds, nowSecs, maxSkew) ==
  Abs(nowSecs - timestampSeconds) <= maxSkew

\* Fault variant of hasSeenNonce: the lookup is by nonce alone.
\* Fault variant of hasSeenNonce: any row of the client counts, whatever its nonce.
hasSeenNonce_anyNonce(db, clientId, nonce) ==
  \E row \in db : row.client_id = clientId

hasSeenNonce_anyClient(db, clientId, nonce) ==
  \E row \in db : row.nonce = nonce

\* Fault variant of hasSeenNonce: rows whose expiry has passed no longer count.
hasSeenNonce_liveOnly(db, clientId, nonce) ==
  \E row \in db : /\ row.client_id = clientId /\ row.nonce = nonce
                   /\ ~TextLeq(row.expires_at, toISOString(clock))

hasSeenNonce(db, clientId, nonce) ==
  \E row \in db : row.client_id = clientId /\ row.nonce = nonce

\* Fault variant of persistNonceFails: the table has no primary key.
persistNonceFails_noKey(db, clientId, nonce) == FALSE

\* INSERT INTO nonces: fails on the primary key (client_id, nonce).
persistNonceFails(db, clientId, nonce) ==
  \E row \in db : row.client_id = clientId /\ row.nonce = nonce

persistNonce(db, clientId, nonce, seenAtIso, expiresAtIso) ==
  db \cup {[client_id |-> clientId, nonce |-> nonce,
            seen_at |-> seenAtIso, expires_at |-> expiresAtIso]}

\* DELETE FROM nonces WHERE expires_at <= ?
cleanupExpiredNonces(db, nowIso) ==
  {row \in db : ~TextLeq(row.expires_at, nowIso)}

cleanupChanges(db, nowIso) ==
  Cardinality({row \in db : TextLeq(row.expires_at, nowIso)})

\* ------------------------------------------------------------ requests
NULL == "NULL"

Secret(c) == IF c = "c1" THEN "s1" ELSE IF c = "c2" THEN "s2" ELSE "s3"

\* The clients table of a run: two active clients and a revoked one ("cx" is unknown).
SeededClients ==
  { [client_id |-> "c1", client_secret |-> Secret("c1"), active |-> 1],
    [client_id |-> "c2", client_secret |-> Secret("c2"), active |-> 1],
    [client_id |-> "c3", client_secret |-> Secret("c3"), active |-> 0] }

Timestamps == 0..((MaxClock \div TicksPerSecond) - 1)

P1 == <<1>>
P2 == <<2>>
PBig == <<1, 1, 1>>

\* The canonical string of the upload route over the header and metadata values.
uploadCanonical(clientId, timestamp, nonce, meta) ==
  buildCanonicalString(
    [method |-> <<"POST">>, path |-> <<"/api/v1/training-uploads">>,
     clientId |-> <<clientId>>, timestamp |-> timestamp, nonce |-> <<nonce>>,
     fileSha256 |-> meta.fileSha256, fileSizeBytes |-> meta.fileSizeBytes,
     schemaVersion |-> meta.schemaVersion])

\* The client's side (buildSignedHeaders of the upload tests): the signature is
\* computed with `secret` over the declared metadata; the timestamp header is
\* the decimal text of the client's clock.
SignedRequest(c, secret, t, n, shape, declHash, declSize, csv) ==
  LET meta == [fileSha256 |-> declHash, fileSizeBytes |-> declSize,
               schemaVersion |-> <<"1">>] IN
  [ clientId |-> c, timestamp |-> String(t), nonce |-> n,
    signature |-> hmacSha256Hex(secret, uploadCanonical(c, String(t), n, meta)),
    version |-> "v1", shape |-> shape, meta |-> meta, csv |-> csv ]

ValidRequest(c, t, n) ==
  SignedRequest(c, Secret(c), t, n, "ok", sha256Hex(P1), Len(P1), P1)

\* Requests with ill-formed headers: empty client id, a timestamp that is not
\* a decimal number, a nonce that is no UUID, a signature that is too short or
\* has a character outside [0-9a-fA-F], an unknown signature version.
IllFormedRequests ==
  LET r == ValidRequest("c1", 1, "n1") IN
  { [r EXCEPT !.clientId = ""],
    [r EXCEPT !.timestamp = <<"1", "a">>],
    [r EXCEPT !.timestamp = <<>>],
    [r EXCEPT !.nonce = "-"],
    [r EXCEPT !.signature = SubSeq(r.signature, 1, Len(r.signature) - 1)],
    [r EXCEPT !.signature = [r.signature EXCEPT ![1] = "g"]],
    [r EXCEPT !.version = "v2"] }

\* One request per way of being rejected before the replay commit.
DefectiveRequests ==
  { [ValidRequest("c1", 1, "n1") EXCEPT !.version = "v2"],
    SignedRequest("cx", Secret("c1"), 1, "n1", "ok", sha256Hex(P1), Len(P1), P1),
    SignedRequest("c3", Secret("c3"), 1, "n1", "ok", sha256Hex(P1), Len(P1), P1),
    SignedRequest("c1", "wrong", 1, "n1", "ok", sha256Hex(P1), Len(P1), P1),
    SignedRequest("c1", Secret("c1"), 1, "n1", "notMultipart", sha256Hex(P1), Len(P1), P1),
    SignedRequest("c1", Secret("c1"), 1, "n1", "badMetadata", sha256Hex(P1), Len(P1), P1),
    SignedRequest("c1", Secret("c1"), 1, "n1", "ok", sha256Hex(P2), Len(P1), P1),
    SignedRequest("c1", Secret("c1"), 1, "n1", "ok", sha256Hex(P1), 2, P1),
    SignedRequest("c1", Secret("c1"), 1, "n1", "ok", sha256Hex(PBig), Len(PBig), PBig) }

\* Valid requests: client c1 at every timestamp, and a second client beside it.
Requests ==
  {ValidRequest("c1", t, "n1") : t \in Timestamps}
    \cup {ValidRequest("c2", 1, "n1")}
    \cup DefectiveRequests

\* Timestamps up to maxClockSkewSeconds + 1 ahead of the latest clock.
SkewTimestamps == 0..((MaxClock \div TicksPerSecond) + maxClockSkewSeconds)

\* Requests at the first two stages: every way of failing the header
\* schema, a signature written in upper case, and valid requests at every
\* distance from the clock.
HeaderRequests ==
  IllFormedRequests
    \cup {[ValidRequest("c1", 1, "n2") EXCEPT !.signature = toUpperCase(@)]}
    \cup {ValidRequest("c1", t, "n1") : t \in SkewTimestamps}

\* A payload whose SHA-256 has letters among its hexadecimal digits.
PLetters == <<171>>

\* The timestamp of a client whose clock runs ahead: within the skew only
\* from second LateTimestamp - maxClockSkewSeconds on.
LateTimestamp == (MaxClock \div TicksPerSecond) + maxClockSkewSeconds

\* Requests that break several rules at once, requests whose metadata
\* declares the hash in upper case (signed over the lower-case or over the
\* upper-case spelling), and valid requests at every timestamp.
PipelineRequests ==
  {ValidRequest("c1", t, "n1") : t \in Timestamps \cup {LateTimestamp}} \cup
  { SignedRequest("c1", Secret("c1"), 1, "n1", "badMetadata", sha256Hex(P1), Len(P1), P1),
    SignedRequest("c1", "wrong", 1, "n1", "ok", sha256Hex(P1), Len(P1), P1),
    SignedRequest("c1", "wrong", 1, "n1", "ok", sha256Hex(P2), Len(P1), P1),
    SignedRequest("c1", "wrong", 1, "n1", "ok", sha256Hex(PBig), Len(PBig), PBig),
    SignedRequest("cx", Secret("c1"), 1, "n1", "badMetadata", sha256Hex(P1), Len(P1), P1),
    [SignedRequest("c1", "wrong", 1, "n1", "ok", sha256Hex(P2), Len(P1), P1)
       EXCEPT !.version = "v2"],
    SignedRequest("c1", Secret("c1"), 1, "n2", "ok", sha256Hex(PLetters), Len(PLetters),
                  PLetters),
    [SignedRequest("c1", Secret("c1"), 1, "n2", "ok", sha256Hex(PLetters), Len(PLetters),
                   PLetters)
       EXCEPT !.meta.fileSha256 = toUpperCase(@)],
    SignedRequest("c1", Secret("c1"), 1, "n2", "ok", toUpperCase(sha256Hex(PLetters)),
                  Len(PLetters), PLetters) }

NoRequest ==
  [ clientId |-> NULL, timestamp |-> <<>>, nonce |-> NULL, signature |-> <<>>,
    version |-> NULL, shape |-> "none",
    meta |-> [fileSha256 |-> <<>>, fileSizeBytes |-> 0, schemaVersion |-> <<>>],
    csv |-> <<>> ]
NoClient == [client_id |-> NULL, client_secret |-> NULL, active |-> 0]
NoResponse == [code |-> 0, errorCode |-> NULL, verifiedFileSha256 |-> <<>>]

\* UploadHeadersSchema.safeParse(request.headers).success
SignatureChars == 2 * MacBytes
Uuids == {"n1", "n2"}
\* Fault variant of UploadHeadersSchema: the signature header is any string.
UploadHeadersSchema_anySignature(request) ==
  /\ request.clientId # ""
  /\ matchesDigits(request.timestamp)
  /\ request.nonce \in Uuids
  /\ request.version = "v1"

UploadHeadersSchema(request) ==
  /\ request.clientId # ""
  /\ matchesDigits(request.timestamp)
  /\ request.nonce \in Uuids
  /\ Len(request.signature) = SignatureChars
  /\ \A i \in 1..Len(request.signature) : isHexChar(request.signature[i])
  /\ request.version = "v1"

\* ------------------------------------------------------- routes/upload
\* `req-${randomUUID()}`: a fresh identifier per attempt.
requestId(a) == <<"req", a>>

\* readMultipartPayload: "FILE_TOO_LARGE", "PAYLOAD_INVALID" or "OK".
\* UploadMetadataSchema.safeParse(...).data of a metadata part that the schema
\* accepts: fileSha256 is transformed to lower case.
UploadMetadataSchema(meta) == [meta EXCEPT !.fileSha256 = toLowerCase(@)]

\* Fault variant of readMultipartPayload: the declared hash and size are not
\* compared with the file received.
readMultipartPayload_declaredOnly(request, maxBytes) ==
  IF Len(request.csv) > maxBytes THEN "FILE_TOO_LARGE"
  ELSE IF request.shape # "ok" THEN "PAYLOAD_INVALID"
  ELSE "OK"

readMultipartPayload(request, maxBytes) ==
  IF Len(request.csv) > maxBytes THEN "FILE_TOO_LARGE"
  ELSE IF request.shape # "ok" THEN "PAYLOAD_INVALID"
  ELSE IF UploadMetadataSchema(request.meta).fileSizeBytes # Len(request.csv)
  THEN "PAYLOAD_INVALID"
  ELSE IF sha256Hex(request.csv) # UploadMetadataSchema(request.meta).fileSha256
  THEN "PAYLOAD_INVALID"
  ELSE "OK"

\* INSERT INTO upload_audit: request_id is the primary key.
auditInsertFails(db, id) == \E row \in db : row.request_id = id

\* Fault variant of writeAuditRow: the error code is not passed on.
writeAuditRow_noErrorCode(db, id, clientId, status, errorCode) ==
  db \cup {[request_id |-> id, client_id |-> clientId,
            status |-> status, error_code |-> NULL]}

writeAuditRow(db, id, clientId, status, errorCode) ==
  db \cup {[request_id |-> id, client_id |-> clientId,
            status |-> status, error_code |-> errorCode]}

errorResponse(statusCode, errorCode) ==
  [code |-> statusCode, errorCode |-> errorCode, verifiedFileSha256 |-> <<>>]

\* Fault variant of sendError: the reply without the audit row.
sendError_noAudit(a, statusCode, errorCode, clientId) ==
  /\ uresp' = [uresp EXCEPT ![a] = errorResponse(statusCode, errorCode)]
  /\ upc' = [upc EXCEPT ![a] = "done"]
  /\ UNCHANGED upload_audit

\* sendError: the audit row, then the reply.  A primary-key failure of the
\* insert propagates out of the handler: no reply is sent by it.
sendError(a, statusCode, errorCode, clientId) ==
  IF auditInsertFails(upload_audit, requestId(a))
  THEN /\ upc' = [upc EXCEPT ![a] = "fatal"]
       /\ UNCHANGED <<upload_audit, uresp>>
  ELSE /\ upload_audit' = writeAuditRow(upload_audit, requestId(a), clientId,
                                        "REJECTED", errorCode)
       /\ uresp' = [uresp EXCEPT ![a] = errorResponse(statusCode, errorCode)]
       /\ upc' = [upc EXCEPT ![a] = "done"]

\* SELECT ... FROM clients WHERE client_id = ? LIMIT 1
selectClient(db, clientId) == {row \in db : row.client_id = clientId}

\* The canonical string the handler rebuilds from the headers and the parsed metadata.
handlerCanonical(request) ==
  uploadCanonical(request.clientId, request.timestamp, request.nonce,
                  UploadMetadataSchema(request.meta))

\* Handler entry up to the first await: header schema, timestamp-skew check,
\* identity lookup, replay pre-check, isMultipart.
UpStart(a, r) ==
  /\ upc[a] = "idle"
  /\ \A b \in 1..(a - 1) : upc[b] # "idle"
  /\ ureq' = [ureq EXCEPT ![a] = r]
  /\ LET found == selectClient(clients, r.clientId) IN
     IF ~UploadHeadersSchema(r)
     THEN /\ sendError(a, 401, "AUTH_FAILED", NULL)
          /\ UNCHANGED <<uclient, rivals>>
     ELSE IF ~isTimestampWithinSkew(Number(r.timestamp), nowSeconds, maxClockSkewSeconds)
     THEN /\ sendError(a, 401, "AUTH_FAILED", r.clientId)
          /\ UNCHANGED <<uclient, rivals>>
     ELSE IF found = {} \/ (\E row \in found : row.active # 1)
     THEN /\ sendError(a, 401, "AUTH_FAILED", r.clientId)
          /\ UNCHANGED <<uclient, rivals>>
     ELSE IF hasSeenNonce(nonces, r.clientId, r.nonce)
     THEN /\ sendError(a, 409, "NONCE_REPLAY", r.clientId)
          /\ UNCHANGED <<uclient, rivals>>
     ELSE IF r.shape = "notMultipart"
     THEN /\ sendError(a, 422, "PAYLOAD_INVALID", r.clientId)
          /\ UNCHANGED <<uclient, rivals>>
     ELSE /\ uclient' = [uclient EXCEPT ![a] = CHOOSE row \in found : TRUE]
          /\ upc' = [upc EXCEPT ![a] = "intake"]
          /\ rivals' = [rivals EXCEPT ![a] =
                          {b \in Uploads \ {a} : /\ upc[b] = "intake"
                                                 /\ ureq[b].clientId = r.clientId
                                                 /\ ureq[b].nonce = r.nonce}]
          /\ UNCHANGED <<upload_audit, uresp>>
  /\ UNCHANGED <<clock, clients, nonces, invite_codes, persisted, fwd, redeemVars, probe>>

\* Fault variant of UpIntake: the replay commit runs as soon as the payload has
\* arrived, ahead of the payload checks and signature verification.
UpIntake_commitFirst(a, cleanupOk) ==
  /\ upc[a] = "intake"
  /\ LET r == ureq[a]
         parsed == readMultipartPayload(r, maxUploadBytes)
         nowIso == toISOString(clock)
         expiresAtIso == toISOString(clock + nonceTtlSeconds * TicksPerSecond)
         inserted == persistNonce(nonces, r.clientId, r.nonce, nowIso, expiresAtIso) IN
     IF persistNonceFails(nonces, r.clientId, r.nonce)
     THEN /\ sendError(a, 409, "NONCE_REPLAY", r.clientId)
          /\ UNCHANGED <<nonces, persisted, fwd>>
     ELSE /\ nonces' = IF cleanupOk THEN cleanupExpiredNonces(inserted, nowIso)
                       ELSE inserted
          /\ IF parsed = "FILE_TOO_LARGE"
             THEN /\ sendError(a, 413, "FILE_TOO_LARGE", r.clientId)
                  /\ UNCHANGED <<persisted, fwd>>
             ELSE IF parsed # "OK"
             THEN /\ sendError(a, 422, "PAYLOAD_INVALID", r.clientId)
                  /\ UNCHANGED <<persisted, fwd>>
             ELSE IF ~verifySignature(uclient[a].client_secret, handlerCanonical(r),
                                      r.signature)
             THEN /\ sendError(a, 401, "AUTH_FAILED", r.clientId)
                  /\ UNCHANGED <<persisted, fwd>>
             ELSE /\ persisted' = [persisted EXCEPT ![a] = TRUE]
                  /\ fwd' = [fwd EXCEPT ![a] = @ + 1]
                  /\ upc' = [upc EXCEPT ![a] = "forwarding"]
                  /\ UNCHANGED <<upload_audit, uresp>>
  /\ uclient' = [uclient EXCEPT ![a] = NoClient]
  /\ UNCHANGED <<clock, clients, invite_codes, ureq, rivals, redeemVars, probe>>

\* From the end of payload intake (awaited) to the next await: the payload
\* checks, signature verification, the replay commit
\* persistNonce(clientId, nonce, now, now + ttl), whose every exception is
\* answered NONCE_REPLAY, the opportunistic cleanup (a failure is logged and
\* swallowed), and the call of the forwarder.
\* Fault variant of UpIntake: the error of a failing cleanup leaves the handler.
UpIntake_cleanupThrows(a, cleanupOk) ==
  /\ upc[a] = "intake"
  /\ LET r == ureq[a]
         parsed == readMultipartPayload(r, maxUploadBytes)
         nowIso == toISOString(clock)
         expiresAtIso == toISOString(clock + nonceTtlSeconds * TicksPerSecond)
         inserted == persistNonce(nonces, r.clientId, r.nonce, nowIso, expiresAtIso) IN
     IF parsed = "FILE_TOO_LARGE"
     THEN /\ sendError(a, 413, "FILE_TOO_LARGE", r.clientId)
          /\ UNCHANGED <<nonces, persisted, fwd>>
     ELSE IF parsed # "OK"
     THEN /\ sendError(a, 422, "PAYLOAD_INVALID", r.clientId)
          /\ UNCHANGED <<nonces, persisted, fwd>>
     ELSE IF ~verifySignature(uclient[a].client_secret, handlerCanonical(r), r.signature)
     THEN /\ sendError(a, 401, "AUTH_FAILED", r.clientId)
          /\ UNCHANGED <<nonces, persisted, fwd>>
     ELSE IF persistNonceFails(nonces, r.clientId, r.nonce)
     THEN /\ sendError(a, 409, "NONCE_REPLAY", r.clientId)
          /\ UNCHANGED <<nonces, persisted, fwd>>
     ELSE IF ~cleanupOk
     THEN /\ nonces' = inserted
          /\ persisted' = [persisted EXCEPT ![a] = TRUE]
          /\ upc' = [upc EXCEPT ![a] = "fatal"]
          /\ UNCHANGED <<upload_audit, uresp, fwd>>
     ELSE /\ nonces' = cleanupExpiredNonces(inserted, nowIso)
          /\ persisted' = [persisted EXCEPT ![a] = TRUE]
          /\ fwd' = [fwd EXCEPT ![a] = @ + 1]
          /\ upc' = [upc EXCEPT ![a] = "forwarding"]
          /\ UNCHANGED <<upload_audit, uresp>>
  /\ uclient' = [uclient EXCEPT ![a] = NoClient]
  /\ UNCHANGED <<clock, clients, invite_codes, ureq, rivals, redeemVars, probe>>

\* Fault variant of UpIntake: the signature is verified before the payload is
\* read.
UpIntake_signatureFirst(a, cleanupOk) ==
  /\ upc[a] = "intake"
  /\ LET r == ureq[a]
         parsed == readMultipartPayload(r, maxUploadBytes)
         nowIso == toISOString(clock)
         expiresAtIso == toISOString(clock + nonceTtlSeconds * TicksPerSecond)
         inserted == persistNonce(nonces, r.clientId, r.nonce, nowIso, expiresAtIso) IN
     IF ~verifySignature(uclient[a].client_secret, handlerCanonical(r), r.signature)
     THEN /\ sendError(a, 401, "AUTH_FAILED", r.clientId)
          /\ UNCHANGED <<nonces, persisted, fwd>>
     ELSE IF parsed = "FILE_TOO_LARGE"
     THEN /\ sendError(a, 413, "FILE_TOO_LARGE", r.clientId)
          /\ UNCHANGED <<nonces, persisted, fwd>>
     ELSE IF parsed # "OK"
     THEN /\ sendError(a, 422, "PAYLOAD_INVALID", r.clientId)
          /\ UNCHANGED <<nonces, persisted, fwd>>
     ELSE IF persistNonceFails(nonces, r.clientId, r.nonce)
     THEN /\ sendError(a, 409, "NONCE_REPLAY", r.clientId)
          /\ UNCHANGED <<nonces, persisted, fwd>>
     ELSE /\ nonces' = IF cleanupOk THEN cleanupExpiredNonces(inserted, nowIso)
                       ELSE inserted
          /\ persisted' = [persisted EXCEPT ![a] = TRUE]
          /\ fwd' = [fwd EXCEPT ![a] = @ + 1]
          /\ upc' = [upc EXCEPT ![a] = "forwarding"]
          /\ UNCHANGED <<upload_audit, uresp>>
  /\ uclient' = [uclient EXCEPT ![a] = NoClient]
  /\ UNCHANGED <<clock, clients, invite_codes, ureq, rivals, redeemVars, probe>>

UpIntake(a, cleanupOk) ==
  /\ upc[a] = "intake"
  /\ LET r == ureq[a]
         parsed == readMultipartPayload(r, maxUploadBytes)
         nowIso == toISOString(clock)
         expiresAtIso == toISOString(clock + nonceTtlSeconds * TicksPerSecond)
         inserted == persistNonce(nonces, r.clientId, r.nonce, nowIso, expiresAtIso) IN
     IF parsed = "FILE_TOO_LARGE"
     THEN /\ sendError(a, 413, "FILE_TOO_LARGE", r.clientId)
          /\ UNCHANGED <<nonces, persisted, fwd>>
     ELSE IF parsed # "OK"
     THEN /\ sendError(a, 422, "PAYLOAD_INVALID", r.clientId)
          /\ UNCHANGED <<nonces, persisted, fwd>>
     ELSE IF ~verifySignature(uclient[a].client_secret, handlerCanonical(r), r.signature)
     THEN /\ sendError(a, 401, "AUTH_FAILED", r.clientId)
          /\ UNCHANGED <<nonces, persisted, fwd>>
     ELSE IF persistNonceFails(nonces, r.clientId, r.nonce)
     THEN /\ sendError(a, 409, "NONCE_REPLAY", r.clientId)
          /\ UNCHANGED <<nonces, persisted, fwd>>
     ELSE /\ nonces' = IF cleanupOk THEN cleanupExpiredNonces(inserted, nowIso)
                       ELSE inserted
          /\ persisted' = [persisted EXCEPT ![a] = TRUE]
          /\ fwd' = [fwd EXCEPT ![a] = @ + 1]
          /\ upc' = [upc EXCEPT ![a] = "forwarding"]
          /\ UNCHANGED <<upload_audit, uresp>>
  /\ uclient' = [uclient EXCEPT ![a] = NoClient]
  /\ UNCHANGED <<clock, clients, invite_codes, ureq, rivals, redeemVars, probe>>

\* Fault variant of UpForwardReturn: a failed forward releases the nonce, so
\* that the client may retry with it.
UpForwardReturn_release(a, forwardOk) ==
  /\ upc[a] = "forwarding"
  /\ IF ~forwardOk
     THEN /\ sendError(a, 502, "DISCORD_FORWARD_FAILED", ureq[a].clientId)
          /\ nonces' = {row \in nonces : ~(/\ row.client_id = ureq[a].clientId
                                           /\ row.nonce = ureq[a].nonce)}
     ELSE /\ upload_audit' = writeAuditRow(upload_audit, requestId(a), ureq[a].clientId,
                                           "FORWARDED", NULL)
          /\ uresp' = [uresp EXCEPT ![a] =
                         [code |-> 200, errorCode |-> NULL,
                          verifiedFileSha256 |-> sha256Hex(ureq[a].csv)]]
          /\ upc' = [upc EXCEPT ![a] = "done"]
          /\ UNCHANGED nonces
  /\ UNCHANGED <<clock, clients, invite_codes, ureq, uclient, persisted, rivals,
                 fwd, redeemVars, probe>>

\* Fault variant of UpForwardReturn: a rejected forward is tried once more.
UpForwardReturn_retry(a, forwardOk) ==
  /\ upc[a] = "forwarding"
  /\ IF ~forwardOk /\ fwd[a] < 2
     THEN /\ fwd' = [fwd EXCEPT ![a] = @ + 1]
          /\ UNCHANGED <<upload_audit, uresp, upc>>
     ELSE IF ~forwardOk
     THEN sendError(a, 502, "DISCORD_FORWARD_FAILED", ureq[a].clientId) /\ UNCHANGED fwd
     ELSE /\ upload_audit' = writeAuditRow(upload_audit, requestId(a), ureq[a].clientId,
                                           "FORWARDED", NULL)
          /\ uresp' = [uresp EXCEPT ![a] =
                         [code |-> 200, errorCode |-> NULL,
                          verifiedFileSha256 |-> sha256Hex(ureq[a].csv)]]
          /\ upc' = [upc EXCEPT ![a] = "done"]
          /\ UNCHANGED fwd
  /\ UNCHANGED <<clock, clients, nonces, invite_codes, ureq, uclient, persisted, rivals,
                 redeemVars, probe>>

\* The forwarder's promise settles: rejected -> 502, resolved -> audit FORWARDED, 200.
\* Fault variant of UpForwardReturn: forwards are serialised, an attempt's
\* forward returns only when no earlier attempt is still forwarding.
UpForwardReturn_serialized(a, forwardOk) ==
  /\ upc[a] = "forwarding"
  /\ \A b \in 1..(a - 1) : upc[b] # "forwarding"
  /\ IF ~forwardOk
     THEN sendError(a, 502, "DISCORD_FORWARD_FAILED", ureq[a].clientId)
     ELSE IF auditInsertFails(upload_audit, requestId(a))
     THEN /\ upc' = [upc EXCEPT ![a] = "fatal"]
          /\ UNCHANGED <<upload_audit, uresp>>
     ELSE /\ upload_audit' = writeAuditRow(upload_audit, requestId(a), ureq[a].clientId,
                                           "FORWARDED", NULL)
          /\ uresp' = [uresp EXCEPT ![a] =
                         [code |-> 200, errorCode |-> NULL,
                          verifiedFileSha256 |-> sha256Hex(ureq[a].csv)]]
          /\ upc' = [upc EXCEPT ![a] = "done"]
  /\ UNCHANGED <<clock, clients, nonces, invite_codes, ureq, uclient, persisted, rivals,
                 fwd, redeemVars, probe>>

UpForwardReturn(a, forwardOk) ==
  /\ upc[a] = "forwarding"
  /\ IF ~forwardOk
     THEN sendError(a, 502, "DISCORD_FORWARD_FAILED", ureq[a].clientId)
     ELSE IF auditInsertFails(upload_audit, requestId(a))
     THEN /\ upc' = [upc EXCEPT ![a] = "fatal"]
          /\ UNCHANGED <<upload_audit, uresp>>
     ELSE /\ upload_audit' = writeAuditRow(upload_audit, requestId(a), ureq[a].clientId,
                                           "FORWARDED", NULL)
          /\ uresp' = [uresp EXCEPT ![a] =
                         [code |-> 200, errorCode |-> NULL,
                          verifiedFileSha256 |-> sha256Hex(ureq[a].csv)]]
          /\ upc' = [upc EXCEPT ![a] = "done"]
  /\ UNCHANGED <<clock, clients, nonces, invite_codes, ureq, uclient, persisted, rivals,
                 fwd, redeemVars, probe>>

\* --------------------------------------------------------------- server
\* The setInterval task of buildServer: cleanupExpiredNonces(db).  A run that
\* deletes nothing (or throws, which is logged) changes no state.
PeriodicCleanup ==
  /\ cleanupChanges(nonces, toISOString(clock)) > 0
  /\ nonces' = cleanupExpiredNonces(nonces, toISOString(clock))
  /\ UNCHANGED <<clock, clients, upload_audit, invite_codes, uploadVars, redeemVars, probe>>

\* Time passes.
Tick ==
  /\ clock < MaxClock
  /\ clock' = clock + 1
  /\ UNCHANGED <<clients, nonces, upload_audit, invite_codes, uploadVars, redeemVars, probe>>

\* ------------------------------------------------------- routes/redeem
InviteCodes == {"i1", "i2"}
RedeemBodies ==
  {[ok |-> TRUE, inviteCode |-> c] : c \in InviteCodes \cup {"ix"}}
    \cup {[ok |-> FALSE, inviteCode |-> "i1"]}

\* randomToken("relay-client-", 12) and randomToken("relay-secret-", 24): the
\* values a run can draw.  Two draws may coincide.
ClientTokens == {"relay-client-1", "relay-client-2"}
SecretTokens == {"relay-secret-1"}

NoBody == [ok |-> FALSE, inviteCode |-> NULL]
NoLocals == [body |-> NoBody, codeHash |-> <<>>, clientId |-> NULL, clientSecret |-> NULL]
NoRedeemResponse == [code |-> 0, errorCode |-> NULL, clientId |-> NULL, clientSecret |-> NULL]

apiError(statusCode, errorCode) ==
  [code |-> statusCode, errorCode |-> errorCode, clientId |-> NULL, clientSecret |-> NULL]

\* Fault variant of inviteExpired: an invite expiring exactly now is still live.
inviteExpired_strict(invite, now) ==
  invite.expires_at # <<>> /\ getTime(invite.expires_at) < now

\* expires_at is NULL (the empty text) or an ISO time.
inviteExpired(invite, now) ==
  invite.expires_at # <<>> /\ getTime(invite.expires_at) <= now

\* The pre-checks on the invite row read by the SELECT ("OK" when all pass).
redeemPrecheck(found, now) ==
  IF found = {} THEN "INVITE_INVALID"
  ELSE LET invite == CHOOSE row \in found : TRUE IN
       IF inviteExpired(invite, now) THEN "INVITE_EXPIRED"
       ELSE IF invite.used_count >= invite.max_uses THEN "INVITE_ALREADY_USED"
       ELSE "OK"

redeemStatusCode(errorCode) ==
  IF errorCode = "INVITE_INVALID" THEN 400
  ELSE IF errorCode = "INVITE_EXPIRED" THEN 410
  ELSE 409

\* Fault variants of the update's WHERE clause: no use-count guard; a guard
\* that is off by one.
guardedUpdateMatches_unguarded(row, codeHash) == row.code_hash = codeHash

guardedUpdateMatches_offByOne(row, codeHash) ==
  row.code_hash = codeHash /\ row.used_count <= row.max_uses

\* UPDATE invite_codes SET used_count = used_count + 1
\*   WHERE code_hash = ? AND used_count < max_uses
guardedUpdateMatches(row, codeHash) ==
  row.code_hash = codeHash /\ row.used_count < row.max_uses

guardedUpdateChanges(db, codeHash) ==
  Cardinality({row \in db : guardedUpdateMatches(row, codeHash)})

guardedUpdate(db, codeHash) ==
  { IF guardedUpdateMatches(row, codeHash)
    THEN [row EXCEPT !.used_count = @ + 1] ELSE row : row \in db }

\* Fault variant of clientInsertFails: client_id without its primary key.
clientInsertFails_never(db, clientId) == FALSE

\* INSERT INTO clients: client_id is the primary key.
clientInsertFails(db, clientId) == \E row \in db : row.client_id = clientId

\* Fault variant of insertClient: the credential is inserted inactive.
insertClient_inactive(db, clientId, clientSecret) ==
  db \cup {[client_id |-> clientId, client_secret |-> clientSecret, active |-> 0]}

insertClient(db, clientId, clientSecret) ==
  db \cup {[client_id |-> clientId, client_secret |-> clientSecret, active |-> 1]}

\* Fault variant of rollback: the writes of a transaction that threw are kept.
rollback_keep(before, written) == written

\* The tables a transaction that threw leaves behind: its writes are rolled back.
rollback(before, written) == before

\* Fault variant of tx: the credential insert runs outside the transaction,
\* before the guarded update, and survives the abort.
tx_insertOutside(invites, cl, codeHash, clientId, clientSecret) ==
  IF clientInsertFails(cl, clientId)
  THEN [outcome |-> "SQLITE_CONSTRAINT", invite_codes |-> invites, clients |-> cl]
  ELSE IF guardedUpdateChanges(invites, codeHash) # 1
  THEN [outcome |-> "INVITE_ALREADY_USED", invite_codes |-> invites,
        clients |-> insertClient(cl, clientId, clientSecret)]
  ELSE [outcome |-> "COMMIT",
        invite_codes |-> guardedUpdate(invites, codeHash),
        clients |-> insertClient(cl, clientId, clientSecret)]

\* db.transaction(() => { guarded update; insert }): the outcome and the two
\* tables after it.
tx(invites, cl, codeHash, clientId, clientSecret) ==
  IF guardedUpdateChanges(invites, codeHash) # 1
  THEN [outcome |-> "INVITE_ALREADY_USED", invite_codes |-> invites, clients |-> cl]
  ELSE IF clientInsertFails(cl, clientId)
  THEN [outcome |-> "SQLITE_CONSTRAINT",
        invite_codes |-> rollback(invites, guardedUpdate(invites, codeHash)),
        clients |-> cl]
  ELSE [outcome |-> "COMMIT",
        invite_codes |-> guardedUpdate(invites, codeHash),
        clients |-> insertClient(cl, clientId, clientSecret)]

\* Handler entry: body schema, SELECT of the invite, the three pre-checks,
\* then the two random tokens.
RdStart(i, body, cid, csec) ==
  /\ rpc[i] = "idle"
  /\ \A j \in 1..(i - 1) : rpc[j] # "idle"
  /\ LET codeHash == hashInviteCode(body.inviteCode)
         found == {row \in invite_codes : row.code_hash = codeHash}
         check == IF ~body.ok THEN "INVITE_INVALID" ELSE redeemPrecheck(found, clock) IN
     IF check # "OK"
     THEN /\ rresp' = [rresp EXCEPT ![i] = apiError(redeemStatusCode(check), check)]
          /\ rpc' = [rpc EXCEPT ![i] = "done"]
          /\ rreq' = [rreq EXCEPT ![i] =
                        [NoLocals EXCEPT !.body = body, !.codeHash = codeHash]]
     ELSE /\ rreq' = [rreq EXCEPT ![i] =
                        [body |-> body, codeHash |-> codeHash,
                         clientId |-> cid, clientSecret |-> csec]]
          /\ rpc' = [rpc EXCEPT ![i] = "tx"]
          /\ UNCHANGED rresp
  /\ UNCHANGED <<clock, clients, nonces, upload_audit, invite_codes, uploadVars,
                 seeded_invites, probe>>

\* tx(): commit -> 200 with the credentials; INVITE_ALREADY_USED -> 409; any
\* other exception is rethrown.
RdTx(i) ==
  /\ rpc[i] = "tx"
  /\ LET l == rreq[i]
         t == tx(invite_codes, clients, l.codeHash, l.clientId, l.clientSecret) IN
     /\ invite_codes' = t.invite_codes
     /\ clients' = t.clients
     /\ IF t.outcome = "COMMIT"
        THEN /\ rresp' = [rresp EXCEPT ![i] =
                            [code |-> 200, errorCode |-> NULL,
                             clientId |-> l.clientId, clientSecret |-> l.clientSecret]]
             /\ rpc' = [rpc EXCEPT ![i] = "done"]
        ELSE IF t.outcome = "INVITE_ALREADY_USED"
        THEN /\ rresp' = [rresp EXCEPT ![i] = apiError(409, "INVITE_ALREADY_USED")]
             /\ rpc' = [rpc EXCEPT ![i] = "done"]
        ELSE /\ rpc' = [rpc EXCEPT ![i] = "fatal"]
             /\ UNCHANGED rresp
  /\ UNCHANGED <<clock, nonces, upload_audit, uploadVars, rreq, seeded_invites, probe>>

\* ------------------------------------------------- direct library calls
\* The ledger functions called directly, as nonces.test.ts does: any pair, any
\* expiry, any cleanup time.
NoProbe == [op |-> "none", clientId |-> NULL, nonce |-> NULL, at |-> <<>>,
            before |-> {}, result |-> NULL]

LedgerPairs == {<<"c1", "n1">>, <<"c1", "n2">>, <<"c2", "n1">>}
LedgerTimes == 0..(MaxClock + nonceTtlSeconds * TicksPerSecond)

CallHasSeenNonce(clientId, nonce) ==
  /\ probe' = [op |-> "hasSeenNonce", clientId |-> clientId, nonce |-> nonce,
               at |-> <<>>, before |-> nonces,
               result |-> IF hasSeenNonce(nonces, clientId, nonce) THEN "true" ELSE "false"]
  /\ UNCHANGED <<clock, clients, nonces, upload_audit, invite_codes, uploadVars, redeemVars>>

\* persistNonce(db, clientId, nonce, now, expiresAt): returns, or throws the
\* constraint error of the primary key.
CallPersistNonce(clientId, nonce, expiresAt) ==
  /\ IF persistNonceFails(nonces, clientId, nonce)
     THEN /\ probe' = [op |-> "persistNonce", clientId |-> clientId, nonce |-> nonce,
                       at |-> toISOString(expiresAt), before |-> nonces,
                       result |-> "SQLITE_CONSTRAINT_PRIMARYKEY"]
          /\ UNCHANGED nonces
     ELSE /\ probe' = [op |-> "persistNonce", clientId |-> clientId, nonce |-> nonce,
                       at |-> toISOString(expiresAt), before |-> nonces,
                       result |-> "returned"]
          /\ nonces' = persistNonce(nonces, clientId, nonce, toISOString(clock),
                                    toISOString(expiresAt))
  /\ UNCHANGED <<clock, clients, upload_audit, invite_codes, uploadVars, redeemVars>>

\* cleanupExpiredNonces(db, nowIso): returns result.changes.
CallCleanupExpiredNonces(t) ==
  /\ probe' = [op |-> "cleanupExpiredNonces", clientId |-> NULL, nonce |-> NULL,
               at |-> toISOString(t), before |-> nonces,
               result |-> String(cleanupChanges(nonces, toISOString(t)))]
  /\ nonces' = cleanupExpiredNonces(nonces, toISOString(t))
  /\ UNCHANGED <<clock, clients, upload_audit, invite_codes, uploadVars, redeemVars>>

\* ------------------------------------------------------ storage faults
\* persistNonce throws an error that is no constraint violation (the database
\* is locked, the disk is full): the handler's catch answers NONCE_REPLAY, and
\* the INSERT of the audit row in sendError fails as well (auditOk = FALSE,
\* the error leaves the handler) or works.
UpIntakeStorageFault(a, auditOk) ==
  /\ upc[a] = "intake"
  /\ readMultipartPayload(ureq[a], maxUploadBytes) = "OK"
  /\ verifySignature(uclient[a].client_secret, handlerCanonical(ureq[a]),
                     ureq[a].signature)
  /\ IF auditOk
     THEN sendError(a, 409, "NONCE_REPLAY", ureq[a].clientId)
     ELSE /\ upc' = [upc EXCEPT ![a] = "fatal"]
          /\ UNCHANGED <<upload_audit, uresp>>
  /\ uclient' = [uclient EXCEPT ![a] = NoClient]
  /\ UNCHANGED <<clock, clients, nonces, invite_codes, ureq, persisted, rivals,
                 fwd, redeemVars, probe>>

\* A statement of the redemption transaction throws such an error: the
\* transaction is rolled back and the handler's catch throws the error again.
RdTxStorageFault(i) ==
  /\ rpc[i] = "tx"
  /\ rpc' = [rpc EXCEPT ![i] = "fatal"]
  /\ UNCHANGED <<clock, clients, nonces, upload_audit, invite_codes, uploadVars,
                 rreq, rresp, seeded_invites, probe>>

\* ----------------------------------- direct calls of security/signature
BaseInput ==
  [ method |-> <<"POST">>, path |-> <<"/api/v1/training-uploads">>,
    clientId |-> <<"c1">>, timestamp |-> <<"1">>, nonce |-> <<"n1">>,
    fileSha256 |-> <<"a", "b">>, fileSizeBytes |-> 1, schemaVersion |-> <<"1">> ]

\* BaseInput changed in exactly one field, once for each of the eight fields.
SingleFieldVariants ==
  { [BaseInput EXCEPT !.method = <<"GET">>],
    [BaseInput EXCEPT !.path = <<"/other">>],
    [BaseInput EXCEPT !.clientId = <<"c2">>],
    [BaseInput EXCEPT !.timestamp = <<"2">>],
    [BaseInput EXCEPT !.nonce = <<"n2">>],
    [BaseInput EXCEPT !.fileSha256 = <<"a", "c">>],
    [BaseInput EXCEPT !.fileSizeBytes = 2],
    [BaseInput EXCEPT !.schemaVersion = <<"2">>] }

SignatureInputs == {BaseInput} \cup SingleFieldVariants

\* Inputs whose fields share a boundary: the same characters divided otherwise
\* between two neighbouring fields, an empty field, and fields with a newline.
CanonicalInputs ==
  SignatureInputs \cup
  { [BaseInput EXCEPT !.clientId = <<"c1", "1">>, !.timestamp = <<"2">>],
    [BaseInput EXCEPT !.clientId = <<"c1">>, !.timestamp = <<"1", "2">>],
    [BaseInput EXCEPT !.fileSizeBytes = 12, !.schemaVersion = <<"1">>],
    [BaseInput EXCEPT !.fileSizeBytes = 1, !.schemaVersion = <<"2", "1">>],
    [BaseInput EXCEPT !.fileSha256 = <<"a", "b", "1">>, !.fileSizeBytes = 2],
    [BaseInput EXCEPT !.nonce = <<>>],
    [BaseInput EXCEPT !.clientId = <<"c1", "\n", "1">>, !.timestamp = <<"2">>],
    [BaseInput EXCEPT !.clientId = <<"c1">>, !.timestamp = <<"1", "\n", "2">>] }

SigningSecrets == {"s1", "s2"}

\* Digest strings: empty, odd, of another length, in upper case, with a
\* character that is no hexadecimal digit, with a trailing newline.
HexTexts ==
  { <<>>, <<"a">>, <<"a", "b">>, <<"A", "B">>, <<"a", "c">>, <<"0", "0">>,
    <<"a", "g">>, <<"a", "b", "\n">>, <<"a", "b", "c">>, <<"a", "b", "d">>,
    <<"a", "b", "c", "d">>, <<"A", "b", "C", "d">>, <<"a", "b", "c", "g">> }

\* One call at a time: a call starts with no call's result pending, and
\* Return discards the result.
CallBuildCanonicalString(input, other) ==
  /\ probe = NoProbe
  /\ probe' = [op |-> "buildCanonicalString", input |-> input, other |-> other,
               result |-> buildCanonicalString(input),
               otherResult |-> buildCanonicalString(other)]
  /\ UNCHANGED <<clock, clients, nonces, upload_audit, invite_codes, uploadVars, redeemVars>>

\* The signer computes hmacSha256Hex(signerSecret, canonical of signerInput);
\* the verifier checks it with its own secret and its own input.
CallVerifySignature(secret, input, signerSecret, signerInput) ==
  LET provided == hmacSha256Hex(signerSecret, buildCanonicalString(signerInput)) IN
  /\ probe = NoProbe
  /\ probe' = [op |-> "verifySignature", secret |-> secret, input |-> input,
               signerSecret |-> signerSecret, signerInput |-> signerInput,
               provided |-> provided,
               result |-> IF verifySignature(secret, buildCanonicalString(input), provided)
                          THEN "true" ELSE "false"]
  /\ UNCHANGED <<clock, clients, nonces, upload_audit, invite_codes, uploadVars, redeemVars>>

CallTimingSafeEqualHex(expectedHex, providedHex) ==
  /\ probe = NoProbe
  /\ probe' = [op |-> "timingSafeEqualHex", expectedHex |-> expectedHex,
               providedHex |-> providedHex,
               result |-> timingSafeEqualHexOutcome(expectedHex, providedHex)]
  /\ UNCHANGED <<clock, clients, nonces, upload_audit, invite_codes, uploadVars, redeemVars>>

Return ==
  /\ probe # NoProbe
  /\ probe' = NoProbe
  /\ UNCHANGED <<clock, clients, nonces, upload_audit, invite_codes, uploadVars, redeemVars>>

\* ------------------------------------------------------- specifications
invite(code, maxUses, usedCount, expiresAt) ==
  [code_hash |-> hashInviteCode(code), max_uses |-> maxUses,
   used_count |-> usedCount, expires_at |-> expiresAt]

InitCommon ==
  /\ clock = 0
  /\ clients = SeededClients
  /\ nonces = {}
  /\ upload_audit = {}
  /\ upc = [a \in Uploads |-> "idle"]
  /\ ureq = [a \in Uploads |-> NoRequest]
  /\ uclient = [a \in Uploads |-> NoClient]
  /\ uresp = [a \in Uploads |-> NoResponse]
  /\ persisted = [a \in Uploads |-> FALSE]
  /\ rivals = [a \in Uploads |-> {}]
  /\ fwd = [a \in Uploads |-> 0]
  /\ rpc = [i \in Redeems |-> "idle"]
  /\ rreq = [i \in Redeems |-> NoLocals]
  /\ rresp = [i \in Redeems |-> NoRedeemResponse]
  /\ seeded_invites = invite_codes
  /\ probe = NoProbe

\* The upload pipeline: one fresh single-use invite in the ledger.
Init ==
  /\ invite_codes = {invite("i1", 1, 0, <<>>)}
  /\ InitCommon

Next ==
  \/ Tick
  \/ PeriodicCleanup
  \/ \E a \in Uploads :
       \/ \E r \in Requests : UpStart(a, r)
       \/ \E cleanupOk \in BOOLEAN : UpIntake(a, cleanupOk)
       \/ \E forwardOk \in BOOLEAN : UpForwardReturn(a, forwardOk)

Spec == Init /\ [][Next]_vars

\* The upload pipeline fed with HeaderRequests.
HeaderNext ==
  \/ Tick
  \/ PeriodicCleanup
  \/ \E a \in Uploads :
       \/ \E r \in HeaderRequests : UpStart(a, r)
       \/ \E cleanupOk \in BOOLEAN : UpIntake(a, cleanupOk)
       \/ \E forwardOk \in BOOLEAN : UpForwardReturn(a, forwardOk)

HeaderSpec == Init /\ [][HeaderNext]_vars

\* The signature utilities called directly, as by their unit tests.
SignatureNext ==
  \/ Return
  \/ \E input, other \in CanonicalInputs : CallBuildCanonicalString(input, other)
  \/ \E secret, signerSecret \in SigningSecrets :
       \E input, signerInput \in SignatureInputs :
         CallVerifySignature(secret, input, signerSecret, signerInput)
  \/ \E expectedHex, providedHex \in HexTexts :
       CallTimingSafeEqualHex(expectedHex, providedHex)

SignatureSpec == Init /\ [][SignatureNext]_vars

\* Uploads and redemptions over a store whose statements may fail.
FaultRequests == {ValidRequest("c1", 1, "n1")}
FaultBodies == {[ok |-> TRUE, inviteCode |-> "i1"]}

FaultNext ==
  \/ Tick
  \/ \E a \in Uploads :
       \/ \E r \in FaultRequests : UpStart(a, r)
       \/ \E cleanupOk \in BOOLEAN : UpIntake(a, cleanupOk)
       \/ \E auditOk \in BOOLEAN : UpIntakeStorageFault(a, auditOk)
       \/ \E forwardOk \in BOOLEAN : UpForwardReturn(a, forwardOk)
  \/ \E i \in Redeems :
       \/ \E body \in FaultBodies, cid \in ClientTokens, csec \in SecretTokens :
            RdStart(i, body, cid, csec)
       \/ RdTx(i)
       \/ RdTxStorageFault(i)

FaultSpec == Init /\ [][FaultNext]_vars

\* The upload pipeline fed with PipelineRequests.
PipelineNext ==
  \/ Tick
  \/ PeriodicCleanup
  \/ \E a \in Uploads :
       \/ \E r \in PipelineRequests : UpStart(a, r)
       \/ \E cleanupOk \in BOOLEAN : UpIntake(a, cleanupOk)
       \/ \E forwardOk \in BOOLEAN : UpForwardReturn(a, forwardOk)

PipelineSpec == Init /\ [][PipelineNext]_vars

\* One redemption beside uploads under the issued credentials: the invite of
\* Init is redeemed, and the uploads, before or after it, name a generated
\* client id and are signed with a generated secret or with a wrong one.
OnboardBodies == {[ok |-> TRUE, inviteCode |-> "i1"]}
OnboardRequests ==
  { SignedRequest(cid, csec, t, "n1", "ok", sha256Hex(P1), Len(P1), P1) :
      cid \in ClientTokens, csec \in SecretTokens \cup {"wrong"}, t \in Timestamps }

OnboardNext ==
  \/ Tick
  \/ \E body \in OnboardBodies, cid \in ClientTokens, csec \in SecretTokens :
       RdStart(1, body, cid, csec)
  \/ RdTx(1)
  \/ \E a \in Uploads :
       \/ \E r \in OnboardRequests : UpStart(a, r)
       \/ \E cleanupOk \in BOOLEAN : UpIntake(a, cleanupOk)
       \/ \E forwardOk \in BOOLEAN : UpForwardReturn(a, forwardOk)

OnboardSpec == Init /\ [][OnboardNext]_vars

\* The upload pipeline with storage failures, and the scheduling the runtime
\* gives a started handler: each awaited operation (the payload intake with
\* the store calls after it, the forwarder call) eventually returns or fails.
\* Arrivals, the clock and the periodic cleanup are under no such obligation.
\* The requests: a valid one, and one rejected at the identity lookup, at the
\* signature, at the metadata and at the size cap.
LiveRequests ==
  { ValidRequest("c1", 1, "n1"),
    SignedRequest("cx", Secret("c1"), 1, "n1", "ok", sha256Hex(P1), Len(P1), P1),
    SignedRequest("c1", "wrong", 1, "n1", "ok", sha256Hex(P1), Len(P1), P1),
    SignedRequest("c1", Secret("c1"), 1, "n1", "badMetadata", sha256Hex(P1), Len(P1), P1),
    SignedRequest("c1", Secret("c1"), 1, "n1", "ok", sha256Hex(PBig), Len(PBig), PBig) }

IntakeReturns(a) ==
  \/ \E cleanupOk \in BOOLEAN : UpIntake(a, cleanupOk)
  \/ \E auditOk \in BOOLEAN : UpIntakeStorageFault(a, auditOk)
ForwardReturns(a) == \E forwardOk \in BOOLEAN : UpForwardReturn(a, forwardOk)

LiveNext ==
  \/ Tick
  \/ PeriodicCleanup
  \/ \E a \in Uploads :
       \/ \E r \in LiveRequests : UpStart(a, r)
       \/ IntakeReturns(a)
       \/ ForwardReturns(a)

LiveSpec ==
  /\ Init /\ [][LiveNext]_vars
  /\ \A a \in Uploads : WF_vars(IntakeReturns(a)) /\ WF_vars(ForwardReturns(a))

\* Redemption: invite i1 seeded with any cap, use count and expiry; i2 fresh.
RedeemInit ==
  /\ \E m \in 1..MaxUses, u \in 0..MaxUses,
        e \in {<<>>} \cup {toISOString(t) : t \in 0..MaxClock} :
       /\ u <= m
       /\ invite_codes = {invite("i1", m, u, e), invite("i2", 1, 0, <<>>)}
  /\ InitCommon

RedeemNext ==
  \/ Tick
  \/ \E i \in Redeems :
       \/ \E body \in RedeemBodies, cid \in ClientTokens, csec \in SecretTokens :
            RdStart(i, body, cid, csec)
       \/ RdTx(i)

RedeemSpec == RedeemInit /\ [][RedeemNext]_vars

\* The nonce ledger on its own.
LedgerNext ==
  \/ Tick
  \/ \E pair \in LedgerPairs :
       \/ CallHasSeenNonce(pair[1], pair[2])
       \/ \E d \in {0, nonceTtlSeconds * TicksPerSecond} :
            CallPersistNonce(pair[1], pair[2], clock + d)
  \/ \E t \in LedgerTimes : CallCleanupExpiredNonces(t)

LedgerSpec == Init /\ [][LedgerNext]_vars

\* =============================================================== claims
Started(a) == upc[a] # "idle"
SamePair(a, b) == ureq[a].clientId = ureq[b].clientId /\ ureq[a].nonce = ureq[b].nonce
RowPresent(db, r) == \E row \in db : row.client_id = r.clientId /\ row.nonce = r.nonce

\* C1: no replay.  Of the attempts that carry one identical signed request
\* (same client id, timestamp, nonce, signature and payload), at most one is
\* handed to the forwarder, whatever cleanups and clock advances come between.
C1_NoReplay ==
  \A a, b \in Uploads :
    (a # b /\ Started(a) /\ Started(b) /\ ureq[a] = ureq[b])
      => ~(fwd[a] > 0 /\ fwd[b] > 0)

\* The replay of C1 at its sharpest: the first attempt has run to its FORWARDED
\* audit row and response before the second attempt of the same request is
\* forwarded too.
C1_ReplayAfterSuccess ==
  \E a, b \in Uploads :
    /\ a # b /\ ureq[a] = ureq[b]
    /\ uresp[a].code = 200 /\ uresp[b].code = 200
    /\ Cardinality({row \in upload_audit : row.status = "FORWARDED"}) = 2

\* C2: two attempts with the same (clientId, nonce) that were past the replay
\* pre-check together and both pass payload validation and signature
\* verification: once both have run persistNonce, exactly one of the calls has
\* succeeded, the other attempt was answered 409 NONCE_REPLAY, and the forwarder
\* was invoked for the winner alone.
RanCommit(a) == upc[a] \notin {"idle", "intake"} /\ uresp[a].code \notin {401, 413, 422}

C2_ExactlyOneWins ==
  \A a, b \in Uploads :
    (a \in rivals[b] /\ RanCommit(a) /\ RanCommit(b))
      => /\ persisted[a] # persisted[b]
         /\ \A l \in {a, b} :
              ~persisted[l] => /\ uresp[l].code = 409
                               /\ uresp[l].errorCode = "NONCE_REPLAY"
                               /\ fwd[l] = 0

\* The race of C2 as it usually ends: one winner, the loser rejected at the commit.
C2_RaceLost ==
  \E a, b \in Uploads :
    /\ a \in rivals[b] /\ RanCommit(a) /\ RanCommit(b)
    /\ persisted[a] # persisted[b]
    /\ \E l \in {a, b} : ~persisted[l] /\ uresp[l].code = 409 /\ fwd[l] = 0

\* ---------------------------------------------------------- redemption
\* The invite row of code hash h, as seeded and as it is now.
SeededRow(h) == CHOOSE row \in seeded_invites : row.code_hash = h
LedgerRow(h) == CHOOSE row \in invite_codes : row.code_hash = h
InviteHashes == {row.code_hash : row \in seeded_invites}

\* Attempts on invite h that passed the pre-checks (each read the invite
\* before its own transaction), and those that returned credentials.
Racers(h) == {i \in Redeems : rreq[i].codeHash = h /\ rreq[i].clientId # NULL}
Successes(h) == {i \in Redeems : rreq[i].codeHash = h /\ rresp[i].code = 200}
Ended(i) == rpc[i] \in {"done", "fatal"}

\* C3: an invite seeded with max_uses = m and used_count = u yields at most
\* m - u successful redemptions however the redemptions interleave; and when
\* two or more redemptions race for an invite with max_uses = 1, used_count = 0
\* (each read it before any committed) and all have been answered, exactly one
\* returned credentials, every other returned 409 INVITE_ALREADY_USED, and
\* used_count is 1.
C3_NoOverRedemption ==
  \A h \in InviteHashes :
    /\ Cardinality(Successes(h)) <= SeededRow(h).max_uses - SeededRow(h).used_count
    /\ ( /\ SeededRow(h).max_uses = 1 /\ SeededRow(h).used_count = 0
         /\ Cardinality(Racers(h)) >= 2
         /\ \A i \in Racers(h) : rpc[i] = "done" )
       => /\ Cardinality(Successes(h)) = 1
          /\ \A i \in Racers(h) \ Successes(h) :
               rresp[i].code = 409 /\ rresp[i].errorCode = "INVITE_ALREADY_USED"
          /\ LedgerRow(h).used_count = 1

\* Two redemptions raced for a fresh single-use invite: one won, one lost at
\* the guarded update.
C3_RaceSettled ==
  \E h \in InviteHashes :
    /\ SeededRow(h).max_uses = 1 /\ SeededRow(h).used_count = 0
    /\ Cardinality(Racers(h)) >= 2
    /\ \A i \in Racers(h) : rpc[i] = "done"
    /\ \E i \in Racers(h) : rresp[i].code = 409

\* C4: for each invite, the credential rows created by its redemptions are as
\* many as its used_count has grown, and every credential row beyond the
\* seeded ones is the credential of a successful redemption: also after a
\* transaction whose guarded update changed no row or whose insert failed.
IssuedRow(i) ==
  [client_id |-> rresp[i].clientId, client_secret |-> rresp[i].clientSecret, active |-> 1]

C4_CredentialsMatchUses ==
  /\ \A h \in InviteHashes :
       /\ Cardinality({IssuedRow(i) : i \in Successes(h)})
            = LedgerRow(h).used_count - SeededRow(h).used_count
       /\ Cardinality({IssuedRow(i) : i \in Successes(h)}) = Cardinality(Successes(h))
       /\ {IssuedRow(i) : i \in Successes(h)} \subseteq clients
  /\ clients \ SeededClients = {IssuedRow(i) : i \in {j \in Redeems : rresp[j].code = 200}}
  /\ \A h1, h2 \in InviteHashes :
       h1 # h2 => {IssuedRow(i) : i \in Successes(h1)}
                    \cap {IssuedRow(i) : i \in Successes(h2)} = {}

\* A transaction whose credential insert failed (its guarded update had
\* matched, and was rolled back) beside a success: one use counted in all.
C4_InsertFailedRolledBack ==
  /\ \E i \in Redeems : rpc[i] = "fatal"
  /\ \E i \in Redeems : rresp[i].code = 200
  /\ \A h \in InviteHashes :
       LedgerRow(h).used_count - SeededRow(h).used_count = Cardinality(Successes(h))

\* C5: every invite seeded with used_count <= max_uses keeps
\* 0 <= used_count <= max_uses in every state, and no step of any redemption
\* lowers its used_count (nor removes the invite).
C5_UseCountBounded ==
  /\ [](\A row \in invite_codes : 0 <= row.used_count /\ row.used_count <= row.max_uses)
  /\ [][\A row \in invite_codes :
          \E next \in invite_codes' : /\ next.code_hash = row.code_hash
                                      /\ next.max_uses = row.max_uses
                                      /\ next.used_count >= row.used_count]_vars

\* An invite of several uses was redeemed up to its cap.
C5_GrownToCap ==
  \E h \in InviteHashes :
    /\ LedgerRow(h).used_count = LedgerRow(h).max_uses
    /\ LedgerRow(h).used_count >= SeededRow(h).used_count + 2

\* C6: the step that runs the pre-checks answers by the first that applies, in
\* the order not-found, expired, exhausted: no row for the code hash (or a
\* malformed body) -> 400 INVITE_INVALID; expires_at set and <= now -> 410
\* INVITE_EXPIRED, whatever the use count; else used_count >= max_uses -> 409
\* INVITE_ALREADY_USED; else the attempt goes on to the transaction.  No
\* attempt on an invite without expires_at is ever answered INVITE_EXPIRED.
PrecheckAnswer(i, code, errorCode) ==
  rpc'[i] = "done" /\ rresp'[i].code = code /\ rresp'[i].errorCode = errorCode

C6_PrecheckOrder ==
  /\ [][\A i \in Redeems :
          (rpc[i] = "idle" /\ rpc'[i] # "idle") =>
            LET body == rreq'[i].body
                found == {row \in invite_codes :
                            row.code_hash = hashInviteCode(body.inviteCode)} IN
            IF ~body.ok \/ found = {}
            THEN PrecheckAnswer(i, 400, "INVITE_INVALID")
            ELSE \A row \in found :
                   IF row.expires_at # <<>> /\ getTime(row.expires_at) <= clock
                   THEN PrecheckAnswer(i, 410, "INVITE_EXPIRED")
                   ELSE IF row.used_count >= row.max_uses
                   THEN PrecheckAnswer(i, 409, "INVITE_ALREADY_USED")
                   ELSE rpc'[i] = "tx"]_vars
  /\ [](\A i \in Redeems :
          rresp[i].errorCode = "INVITE_EXPIRED" =>
            \E row \in invite_codes : /\ row.code_hash = rreq[i].codeHash
                                      /\ row.expires_at # <<>>)

\* An invite both exhausted and expiring at this very instant was answered
\* INVITE_EXPIRED.
C6_ExpiredAndExhaustedNow ==
  \E i \in Redeems :
    /\ rresp[i].code = 410
    /\ \E row \in invite_codes : /\ row.code_hash = rreq[i].codeHash
                                 /\ row.expires_at = toISOString(clock)
                                 /\ row.used_count >= row.max_uses

\* C7: the step in which a redemption ends without credentials (400, 410, 409
\* from the pre-checks, 409 from the guarded update, or a rethrown error)
\* leaves invite_codes and clients as they were; and a step that changes
\* clients adds exactly the credential row of a redemption that returns 200 in
\* that step.
C7_FailuresChangeNothing ==
  [][/\ \A i \in Redeems :
          (~Ended(i) /\ Ended(i)' /\ rresp'[i].code # 200)
            => invite_codes' = invite_codes /\ clients' = clients
     /\ clients' # clients =>
          \E i \in Redeems :
            /\ rresp[i].code # 200 /\ rresp'[i].code = 200
            /\ clients' = clients \cup
                 {[client_id |-> rresp'[i].clientId,
                   client_secret |-> rresp'[i].clientSecret, active |-> 1]}
            /\ Cardinality(clients') = Cardinality(clients) + 1]_vars

\* A redemption that passed the pre-checks was answered 409 by the guarded
\* update, and the ledger shows the winner's use only.
C7_LostAtGuardedUpdate ==
  \E i \in Redeems :
    /\ rreq[i].clientId # NULL /\ rresp[i].code = 409
    /\ LedgerRow(rreq[i].codeHash).used_count = LedgerRow(rreq[i].codeHash).max_uses
    /\ Cardinality(clients \ SeededClients) = Cardinality(Successes(rreq[i].codeHash))

\* -------------------------------------------------------------- uploads
Responded(a) == uresp[a].code # 0
AuditRowsOf(a) == {row \in upload_audit : row.request_id = requestId(a)}

\* C8: every attempt that has been answered has exactly one audit row, under a
\* request id no other attempt uses, recording the answer (FORWARDED for 200,
\* REJECTED with the error code otherwise); the row is there in the state in
\* which the response is (written before it is sent); the table holds no
\* other rows; and no step removes or alters a row.
C8_OneAuditRowPerAttempt ==
  /\ [](/\ \A a \in Uploads :
             Responded(a) =>
               /\ Cardinality(AuditRowsOf(a)) = 1
               /\ \A row \in AuditRowsOf(a) :
                    /\ row.error_code = uresp[a].errorCode
                    /\ row.status = IF uresp[a].code = 200 THEN "FORWARDED" ELSE "REJECTED"
        /\ \A a, b \in Uploads : a # b => requestId(a) # requestId(b)
        /\ Cardinality(upload_audit) = Cardinality({a \in Uploads : Responded(a)}))
  /\ [][upload_audit \subseteq upload_audit']_vars

\* Every kind of answer has been given and audited: the five rejections are
\* reachable one by one, here a forward failure beside a success.
C8_FailureAndSuccessAudited ==
  /\ \E a \in Uploads : uresp[a].code = 502 /\ AuditRowsOf(a) # {}
  /\ \E a \in Uploads : uresp[a].code = 200 /\ AuditRowsOf(a) # {}
  /\ Cardinality(upload_audit) = 2

\* Attempt a's forward has failed and b is a resubmission of a's request,
\* entering the handler in this step while the nonce row is in the ledger.
ForwardFails(a) == upc[a] = "forwarding" /\ upc'[a] # "forwarding" /\ uresp'[a].code # 200
Resubmits(b, a) ==
  /\ a # b /\ uresp[a].code = 502
  /\ upc[b] = "idle" /\ upc'[b] # "idle" /\ ureq'[b] = ureq[a]
  /\ RowPresent(nonces, ureq[a])

\* What C9 says of the failing attempt itself: answered 502
\* DISCORD_FORWARD_FAILED; the replay commit had been made before the
\* forwarder was called and the failure leaves the ledger as it is; the
\* forwarder is called once per attempt at most.
C9_FailedForward ==
  /\ [][\A a \in Uploads :
          ForwardFails(a) =>
            /\ uresp'[a].code = 502 /\ uresp'[a].errorCode = "DISCORD_FORWARD_FAILED"
            /\ upc'[a] = "done"
            /\ persisted[a] /\ nonces' = nonces
            /\ fwd' = fwd]_vars
  /\ [](\A a \in Uploads : fwd[a] <= 1 /\ (uresp[a].code = 502 => fwd[a] = 1))

\* C9 as stated: ... and a resubmission of the same request while the row is
\* present is answered 409 NONCE_REPLAY, with no forwarder invocation.
C9_ResubmissionIsNonceReplay ==
  /\ C9_FailedForward
  /\ [][\A a, b \in Uploads :
          Resubmits(b, a) =>
            /\ upc'[b] = "done" /\ fwd' = fwd /\ nonces' = nonces
            /\ uresp'[b].code = 409 /\ uresp'[b].errorCode = "NONCE_REPLAY"]_vars

\* C9, amended: ... and a resubmission of the same request while the row is
\* present is rejected in the step it enters, with no forwarder invocation:
\* with 409 NONCE_REPLAY when its timestamp is still within the clock skew,
\* with 401 AUTH_FAILED when it no longer is.
C9_ResubmissionRejected ==
  /\ C9_FailedForward
  /\ [][\A a, b \in Uploads :
          Resubmits(b, a) =>
            /\ upc'[b] = "done" /\ fwd' = fwd /\ nonces' = nonces
            /\ IF isTimestampWithinSkew(Number(ureq[a].timestamp), nowSeconds, maxClockSkewSeconds)
               THEN uresp'[b].code = 409 /\ uresp'[b].errorCode = "NONCE_REPLAY"
               ELSE uresp'[b].code = 401 /\ uresp'[b].errorCode = "AUTH_FAILED"]_vars

\* The forward failed, the request was resubmitted while its nonce row was in
\* the ledger, and the resubmission was answered NONCE_REPLAY unforwarded.
C9_RetryAfterFailure ==
  \E a, b \in Uploads :
    /\ a # b /\ ureq[a] = ureq[b]
    /\ uresp[a].code = 502 /\ fwd[a] = 1
    /\ uresp[b].code = 409 /\ fwd[b] = 0
    /\ RowPresent(nonces, ureq[a])

\* A request the pipeline has nothing against: well-formed headers, an active
\* client, its own signature, a payload matching the declared metadata.
WellFormed(r) ==
  /\ UploadHeadersSchema(r)
  /\ readMultipartPayload(r, maxUploadBytes) = "OK"
  /\ \E row \in clients : /\ row.client_id = r.clientId /\ row.active = 1
                          /\ verifySignature(row.client_secret, handlerCanonical(r),
                                             r.signature)

\* The attempt is rejected in this step at a stage before the replay commit.
RejectedEarly(a) ==
  \/ upc[a] = "idle" /\ upc'[a] = "done"
  \/ upc[a] = "intake" /\ upc'[a] = "done" /\ uresp'[a].code \in {401, 413, 422}

\* C10: the step rejecting an attempt before the replay commit (headers, skew,
\* identity, replay pre-check, payload intake, signature) leaves the nonce
\* ledger unchanged and invokes no forwarder, so every row of the ledger was
\* committed by an attempt whose request passed all of those checks; and a
\* well-formed request whose (clientId, nonce) is not in the ledger is
\* accepted: it passes the pre-check when its timestamp is within the skew,
\* and at the replay commit it is persisted and handed to the forwarder.
C10_EarlyRejectionsLeaveNoTrace ==
  /\ [][\A a \in Uploads :
          /\ RejectedEarly(a) =>
               nonces' = nonces /\ fwd' = fwd /\ fwd[a] = 0 /\ persisted' = persisted
          /\ ( /\ upc[a] = "idle" /\ upc'[a] # "idle"
               /\ ~RowPresent(nonces, ureq'[a])
               /\ WellFormed(ureq'[a])
               /\ isTimestampWithinSkew(Number(ureq'[a].timestamp), nowSeconds, maxClockSkewSeconds) )
             => upc'[a] = "intake"
          /\ ( /\ upc[a] = "intake" /\ upc'[a] # "intake"
               /\ ~RowPresent(nonces, ureq[a])
               /\ WellFormed(ureq[a]) )
             => /\ upc'[a] = "forwarding" /\ persisted'[a] /\ fwd'[a] = 1
                /\ RowPresent(nonces', ureq[a])]_vars
  /\ [](\A row \in nonces :
          \E a \in Uploads : /\ persisted[a]
                             /\ ureq[a].clientId = row.client_id
                             /\ ureq[a].nonce = row.nonce
                             /\ WellFormed(ureq[a]))

\* A request was refused 422 PAYLOAD_INVALID for its hash mismatch, and the
\* corrected request with the same client, timestamp and nonce was accepted
\* and forwarded.
C10_CorrectedResubmissionAccepted ==
  \E a, b \in Uploads :
    /\ uresp[a].code = 422
    /\ ureq[a].meta.fileSha256 # sha256Hex(ureq[a].csv)
    /\ a < b /\ SamePair(a, b) /\ ureq[a].timestamp = ureq[b].timestamp
    /\ WellFormed(ureq[b])
    /\ uresp[b].code = 200 /\ fwd[b] = 1 /\ fwd[a] = 0

\* ------------------------------------------------------- authentication
\* The credential rows of the claimed client, and whether the supplied
\* signature is the HMAC of the request's canonical string under a row's secret.
CredentialsOf(r) == {row \in clients : row.client_id = r.clientId}
SignatureMatches(row, r) ==
  toLowerCase(r.signature) = hmacSha256Hex(row.client_secret, handlerCanonical(r))
Authentic(r) ==
  \E row \in CredentialsOf(r) : row.active = 1 /\ SignatureMatches(row, r)
BadSignature(r) ==
  /\ UploadHeadersSchema(r)
  /\ \E row \in CredentialsOf(r) : row.active = 1 /\ ~SignatureMatches(row, r)

\* What C11 says of the forwarder and of unknown and inactive clients: the
\* forwarder is invoked for an attempt only when the row read by that
\* attempt's identity lookup is the claimed client's, is active, and its
\* secret verifies the supplied signature over the request's canonical
\* string; an attempt of an unknown or inactive client ends 401 AUTH_FAILED.
C11_ForwardedOnlyIfAuthentic ==
  /\ [][\A a \in Uploads :
          fwd'[a] > fwd[a] =>
            /\ uclient[a].client_id = ureq[a].clientId
            /\ uclient[a].active = 1
            /\ uclient[a] \in clients
            /\ SignatureMatches(uclient[a], ureq[a])]_vars
  /\ [](\A a \in Uploads :
          /\ fwd[a] > 0 => Authentic(ureq[a])
          /\ (Responded(a) /\ ~\E row \in CredentialsOf(ureq[a]) : row.active = 1)
               => uresp[a].code = 401 /\ uresp[a].errorCode = "AUTH_FAILED" /\ fwd[a] = 0)

\* C11 as stated: ... and an attempt whose signature does not match always
\* ends 401 AUTH_FAILED.
C11_BadSignatureAlways401 ==
  /\ C11_ForwardedOnlyIfAuthentic
  /\ [](\A a \in Uploads :
          (Responded(a) /\ BadSignature(ureq[a]))
             => uresp[a].code = 401 /\ uresp[a].errorCode = "AUTH_FAILED")

\* C11, amended: ... and an attempt whose signature does not match is never
\* forwarded; it ends 401 AUTH_FAILED whenever it reaches signature
\* verification, and otherwise with the rejection of the earlier stage that
\* stopped it (401 skew, 409 replay pre-check, 413 or 422 payload intake).
C11_BadSignatureNeverForwarded ==
  /\ C11_ForwardedOnlyIfAuthentic
  /\ [](\A a \in Uploads :
          Responded(a) =>
             \/ fwd[a] = 0 /\ uresp[a].code \in {401, 409, 413, 422}
             \/ ~BadSignature(ureq[a]))
  /\ [][\A a \in Uploads :
          ( /\ upc[a] = "intake" /\ upc'[a] # "intake"
            /\ readMultipartPayload(ureq[a], maxUploadBytes) = "OK"
            /\ ~SignatureMatches(uclient[a], ureq[a]) )
          => uresp'[a].code = 401 /\ uresp'[a].errorCode = "AUTH_FAILED"]_vars

\* A request signed with the wrong key was refused at signature verification,
\* and an authentic one was forwarded.
C11_WrongKeyRefused ==
  /\ \E a \in Uploads :
       /\ BadSignature(ureq[a]) /\ uresp[a].code = 401
       /\ isTimestampWithinSkew(Number(ureq[a].timestamp), nowSeconds, maxClockSkewSeconds)
       /\ ~RowPresent(nonces, ureq[a])
  /\ \E a \in Uploads : fwd[a] = 1 /\ Authentic(ureq[a])

\* --------------------------------------------------------- nonce ledger
PairRows(db, clientId, nonce) ==
  {row \in db : row.client_id = clientId /\ row.nonce = nonce}

\* C12: hasSeen of a pair answers whether the ledger holds a row of the pair
\* (false for a pair not in it); a persist of a pair not in the ledger returns
\* and leaves exactly one row of the pair with the seenAt and expiresAt given,
\* so that hasSeen is true from then on; a persist of a pair that is in the
\* ledger throws and leaves the ledger, and so the stored seenAt and expiresAt,
\* as they were; the ledger never holds two rows of one pair, and a row leaves
\* it only through a cleanup.
C12_LedgerSequence ==
  /\ [](/\ probe.op = "hasSeenNonce" =>
             (probe.result = "true") = (PairRows(probe.before, probe.clientId, probe.nonce) # {})
        /\ probe.op = "persistNonce" =>
             IF PairRows(probe.before, probe.clientId, probe.nonce) = {}
             THEN /\ probe.result = "returned"
                  /\ hasSeenNonce(nonces, probe.clientId, probe.nonce)
                  /\ nonces \ probe.before = PairRows(nonces, probe.clientId, probe.nonce)
                  /\ probe.before \subseteq nonces
                  /\ \A row \in PairRows(nonces, probe.clientId, probe.nonce) :
                       row.expires_at = probe.at
             ELSE /\ probe.result # "returned"
                  /\ nonces = probe.before
        /\ \A r1, r2 \in nonces :
             (r1.client_id = r2.client_id /\ r1.nonce = r2.nonce) => r1 = r2)
  /\ [][\A row \in nonces :
          row \in nonces' \/ probe'.op = "cleanupExpiredNonces"]_vars

\* The second persist of a pair has failed, with the pair's row in the ledger.
C12_SecondPersistFailed ==
  /\ probe.op = "persistNonce" /\ probe.result # "returned"
  /\ \E row \in nonces : /\ row.client_id = probe.clientId /\ row.nonce = probe.nonce
                         /\ row.expires_at # probe.at

\* C13: cleanupExpired(t) deletes exactly the rows with expiresAt <= t
\* (expiresAt = t included), returns their number, and leaves every row with
\* expiresAt > t in the ledger as it was.
C13_CleanupExact ==
  probe.op = "cleanupExpiredNonces" =>
    /\ nonces = {row \in probe.before : getTime(row.expires_at) > getTime(probe.at)}
    /\ probe.before \ nonces
         = {row \in probe.before : getTime(row.expires_at) <= getTime(probe.at)}
    /\ probe.result = String(Cardinality(probe.before) - Cardinality(nonces))

\* A cleanup at t deleted a row expiring exactly at t and kept a later one.
C13_BoundaryRowDeleted ==
  /\ probe.op = "cleanupExpiredNonces"
  /\ \E row \in probe.before \ nonces : row.expires_at = probe.at
  /\ \E row \in nonces : getTime(row.expires_at) > getTime(probe.at)
  /\ probe.result = String(1)

\* C14: nonces are scoped per client.  A replay commit of (c1, n) makes
\* neither hasSeen(c2, n) true nor persist(c2, n) fail for any other client
\* c2 (it adds no row of c2), and an attempt is answered NONCE_REPLAY only when the ledger
\* holds a row of its own (clientId, nonce).
C14_NoncePerClient ==
  [][\A a \in Uploads :
       /\ (~persisted[a] /\ persisted'[a]) =>
            \A c2 \in {row.client_id : row \in clients} \ {ureq[a].clientId} :
              /\ hasSeenNonce(nonces', c2, ureq[a].nonce)
                   => hasSeenNonce(nonces, c2, ureq[a].nonce)
              /\ persistNonceFails(nonces', c2, ureq[a].nonce)
                   => persistNonceFails(nonces, c2, ureq[a].nonce)
              /\ PairRows(nonces', c2, ureq[a].nonce) \subseteq nonces
       /\ (uresp[a].code = 0 /\ uresp'[a].errorCode = "NONCE_REPLAY") =>
            PairRows(nonces, ureq'[a].clientId, ureq'[a].nonce) # {}]_vars

\* Client c2 was accepted with a nonce value that is in the ledger for c1.
C14_SameNonceOtherClient ==
  \E a, b \in Uploads :
    /\ ureq[a].clientId # ureq[b].clientId /\ ureq[a].nonce = ureq[b].nonce
    /\ a < b /\ persisted[a] /\ persisted[b] /\ uresp[a].code = 200 /\ uresp[b].code = 200
    /\ PairRows(nonces, ureq[a].clientId, ureq[a].nonce) # {}
    /\ PairRows(nonces, ureq[b].clientId, ureq[b].nonce) # {}

\* ------------------------------------------------- first stages of the pipeline
\* The step in which attempt a runs from its start to its first await.
Starts(a) == upc[a] = "idle" /\ upc'[a] # "idle"
SkewDistance(a) == Abs(nowSeconds - Number(ureq'[a].timestamp))

\* C15: the skew check accepts exactly when |now - timestamp| <=
\* maxClockSkewSeconds, alike for timestamps behind and ahead of the clock:
\* an attempt at distance maxClockSkewSeconds passes the check, one at
\* distance maxClockSkewSeconds + 1 (or more) is answered AUTH_FAILED (401).
C15_SkewBoundary ==
  [][\A a \in Uploads :
       (Starts(a) /\ UploadHeadersSchema(ureq'[a])) =>
         /\ isTimestampWithinSkew(Number(ureq'[a].timestamp), nowSeconds,
                                  maxClockSkewSeconds)
              = (SkewDistance(a) <= maxClockSkewSeconds)
         /\ isTimestampWithinSkew(Number(ureq'[a].timestamp), nowSeconds,
                                  maxClockSkewSeconds)
              = isTimestampWithinSkew(nowSeconds, Number(ureq'[a].timestamp),
                                      maxClockSkewSeconds)
         /\ SkewDistance(a) > maxClockSkewSeconds =>
              /\ uresp'[a].code = 401 /\ uresp'[a].errorCode = "AUTH_FAILED"
              /\ upc'[a] = "done"
         /\ (SkewDistance(a) <= maxClockSkewSeconds /\ Authentic(ureq'[a])) =>
              uresp'[a].errorCode # "AUTH_FAILED"]_vars

\* With the clock still in one second, a timestamp maxClockSkewSeconds ahead
\* of it was accepted and one maxClockSkewSeconds + 1 ahead refused.
C15_BothSidesOfBoundary ==
  \E a, b \in Uploads :
    /\ uresp[a].code = 200 /\ uresp[b].code = 401
    /\ UploadHeadersSchema(ureq[a]) /\ UploadHeadersSchema(ureq[b])
    /\ Number(ureq[a].timestamp) - nowSeconds = maxClockSkewSeconds
    /\ Number(ureq[b].timestamp) - nowSeconds = maxClockSkewSeconds + 1
    /\ Authentic(ureq[b])

isLowerHexChar(ch) == \E i \in 1..Len(HexDigits) : HexDigits[i] = ch
\* Ill-formed headers as the specification lists them (the signature is to be
\* lower-case hexadecimal of the digest's length) ...
IllFormedAsSpecified(r) ==
  \/ r.clientId = ""
  \/ ~matchesDigits(r.timestamp)
  \/ r.nonce \notin Uuids
  \/ Len(r.signature) # SignatureChars
  \/ \E i \in 1..Len(r.signature) : ~isLowerHexChar(r.signature[i])
\* ... and with a signature of hexadecimal digits of either case.
IllFormedEitherCase(r) ==
  \/ r.clientId = ""
  \/ ~matchesDigits(r.timestamp)
  \/ r.nonce \notin Uuids
  \/ Len(r.signature) # SignatureChars
  \/ \E i \in 1..Len(r.signature) : ~isHexChar(r.signature[i])
\* Attempt a is answered AUTH_FAILED in its first step, before the credential
\* lookup, the nonce check and the payload intake.
RejectedAtHeaders(a) ==
  /\ upc'[a] = "done"
  /\ uresp'[a].code = 401 /\ uresp'[a].errorCode = "AUTH_FAILED"
  /\ uclient'[a] = NoClient /\ nonces' = nonces /\ ~persisted'[a] /\ fwd'[a] = 0
  /\ \E row \in upload_audit' \ upload_audit :
       row.request_id = requestId(a) /\ row.client_id = NULL

\* C19 as stated: an upload whose client id is empty, whose timestamp is not
\* purely numeric, whose nonce is no valid UUID or whose signature is not
\* exactly the digest's length in lower-case hexadecimal is answered
\* AUTH_FAILED (401) at header validation.
C19_LowercaseOnly ==
  [][\A a \in Uploads :
       (Starts(a) /\ IllFormedAsSpecified(ureq'[a])) => RejectedAtHeaders(a)]_vars

\* C19, amended: an upload whose client id is empty, whose timestamp is not
\* purely numeric, whose nonce is no valid UUID or whose signature is not
\* exactly the digest's length in hexadecimal digits of either case is answered
\* AUTH_FAILED (401) at header validation, before any credential lookup, nonce
\* check or payload intake; the audit row carries no client id.
C19_IllFormedHeadersRejectedFirst ==
  [][\A a \in Uploads :
       (Starts(a) /\ IllFormedEitherCase(ureq'[a])) => RejectedAtHeaders(a)]_vars

\* A signature with a character that is no hexadecimal digit was refused, and
\* a correct signature written in upper case was accepted.
C19_HeadersRefusedUpperCaseAccepted ==
  \E a, b \in Uploads :
    /\ uresp[a].code = 401 /\ upc[a] = "done"
    /\ Len(ureq[a].signature) = SignatureChars
    /\ \E i \in 1..SignatureChars : ~isHexChar(ureq[a].signature[i])
    /\ uresp[b].code = 200
    /\ ureq[b].signature # toLowerCase(ureq[b].signature)

\* ------------------------------------------------------ signature utilities
\* C16: verifySignature(secret, canonical(fields), hmac(secret,
\* canonical(fields))) is true, and it is false when the digest was made with
\* another secret or over a tuple that differs in any single field.
C16_VerifiesOwnDigestOnly ==
  probe.op = "verifySignature" =>
    /\ (probe.secret = probe.signerSecret /\ probe.input = probe.signerInput)
         => probe.result = "true"
    /\ probe.secret # probe.signerSecret => probe.result = "false"
    /\ probe.input # probe.signerInput => probe.result = "false"

\* A digest made with the right secret over a tuple differing only in the file
\* size was refused.
C16_OneFieldOff ==
  /\ probe.op = "verifySignature" /\ probe.result = "false"
  /\ probe.secret = probe.signerSecret
  /\ probe.signerInput = [probe.input EXCEPT !.fileSizeBytes = 2]
  /\ probe.input.fileSizeBytes = 1

NewlineFree(input) ==
  \A text \in {input.method, input.path, input.clientId, input.timestamp,
               input.nonce, input.fileSha256, input.schemaVersion} :
    \A i \in 1..Len(text) : text[i] # "\n"
Newlines(text) == Cardinality({i \in 1..Len(text) : text[i] = "\n"})
\* The eight fields one after the other, with nothing between them.
Concatenated(input) ==
  input.method \o input.path \o input.clientId \o input.timestamp \o input.nonce
    \o input.fileSha256 \o String(input.fileSizeBytes) \o input.schemaVersion

\* C17: buildCanonicalString returns method, path, clientId, timestamp, nonce,
\* fileSha256, the decimal fileSizeBytes and schemaVersion in that order, with
\* exactly one newline between two neighbours and none before the first or
\* after the last; over newline-free field values it is injective.
C17_CanonicalFormat ==
  probe.op = "buildCanonicalString" =>
    /\ probe.result
         = probe.input.method \o <<"\n">> \o probe.input.path \o <<"\n">>
             \o probe.input.clientId \o <<"\n">> \o probe.input.timestamp \o <<"\n">>
             \o probe.input.nonce \o <<"\n">> \o probe.input.fileSha256 \o <<"\n">>
             \o String(probe.input.fileSizeBytes) \o <<"\n">>
             \o probe.input.schemaVersion
    /\ Number(String(probe.input.fileSizeBytes)) = probe.input.fileSizeBytes
    /\ NewlineFree(probe.input) =>
         /\ Newlines(probe.result) = 7
         /\ probe.result[1] # "\n" /\ probe.result[Len(probe.result)] # "\n"
    /\ (NewlineFree(probe.input) /\ NewlineFree(probe.other)
          /\ probe.input # probe.other) => probe.result # probe.otherResult

\* Two newline-free tuples with the same characters, divided otherwise between
\* the size and the schema version, got different canonical strings.
C17_SameCharactersOtherFields ==
  /\ probe.op = "buildCanonicalString"
  /\ NewlineFree(probe.input) /\ NewlineFree(probe.other)
  /\ probe.input # probe.other
  /\ probe.input.fileSizeBytes > 9
  /\ Concatenated(probe.input) = Concatenated(probe.other)
  /\ probe.result # probe.otherResult

WellFormedHex(text) ==
  /\ Len(text) > 0 /\ Len(text) % 2 = 0
  /\ \A i \in 1..Len(text) : isHexChar(text[i])

\* C18: the digest comparison never raises; it returns false when either
\* string is empty or has a character that is no hexadecimal digit, when the
\* lengths differ or the length is odd, and true only when both are
\* well-formed hexadecimal of one even length that decode to the same bytes.
C18_ComparisonTotal ==
  probe.op = "timingSafeEqualHex" =>
    /\ probe.result \in {"true", "false"}
    /\ (\/ probe.expectedHex = <<>> \/ probe.providedHex = <<>>
        \/ \E i \in 1..Len(probe.expectedHex) : ~isHexChar(probe.expectedHex[i])
        \/ \E i \in 1..Len(probe.providedHex) : ~isHexChar(probe.providedHex[i])
        \/ Len(probe.expectedHex) # Len(probe.providedHex)
        \/ Len(probe.expectedHex) % 2 = 1) => probe.result = "false"
    /\ probe.result = "true" =>
         /\ WellFormedHex(probe.expectedHex) /\ WellFormedHex(probe.providedHex)
         /\ Len(probe.expectedHex) = Len(probe.providedHex)
         /\ toLowerCase(probe.expectedHex) = toLowerCase(probe.providedHex)
    /\ (/\ WellFormedHex(probe.expectedHex) /\ WellFormedHex(probe.providedHex)
        /\ toLowerCase(probe.expectedHex) = toLowerCase(probe.providedHex))
         => probe.result = "true"

\* Two well-formed strings of different lengths were compared, and the answer
\* was false.
C18_LengthsDiffer ==
  /\ probe.op = "timingSafeEqualHex" /\ probe.result = "false"
  /\ WellFormedHex(probe.expectedHex) /\ WellFormedHex(probe.providedHex)
  /\ Len(probe.expectedHex) # Len(probe.providedHex)

\* ------------------------------------------------------------ storage faults
\* C20: a storage failure that is no business-rule conflict ends the upload
\* or the redemption as a fatal failure, never under a business error code:
\* an upload that reaches the replay commit with no row of its (clientId,
\* nonce) in the ledger is committed or fails fatally (it is not answered
\* NONCE_REPLAY), and a redemption whose guarded update matches a row is
\* answered 200 or fails fatally (it is not answered INVITE_ALREADY_USED).
C20_FaultsAreFatal ==
  [][/\ \A a \in Uploads :
          (/\ upc[a] = "intake" /\ upc'[a] # "intake"
           /\ readMultipartPayload(ureq[a], maxUploadBytes) = "OK"
           /\ verifySignature(uclient[a].client_secret, handlerCanonical(ureq[a]),
                              ureq[a].signature)
           /\ ~persistNonceFails(nonces, ureq[a].clientId, ureq[a].nonce))
            => (persisted'[a] \/ upc'[a] = "fatal")
     /\ \A i \in Redeems :
          (/\ rpc[i] = "tx" /\ rpc'[i] # "tx"
           /\ guardedUpdateChanges(invite_codes, rreq[i].codeHash) = 1)
            => (rresp'[i].code = 200 \/ rpc'[i] = "fatal")]_vars

\* ------------------------------------------------------ order of the stages
\* The error code of the first stage, in the order header validation,
\* timestamp skew, identity lookup, replay pre-check, that request r fails
\* against the ledger db ("NONE" when it fails none of them).
FirstFailureAtStart(r, db) ==
  IF ~UploadHeadersSchema(r) THEN "AUTH_FAILED"
  ELSE IF Abs(nowSeconds - Number(r.timestamp)) > maxClockSkewSeconds THEN "AUTH_FAILED"
  ELSE IF ~\E row \in clients : row.client_id = r.clientId /\ row.active = 1
  THEN "AUTH_FAILED"
  ELSE IF RowPresent(db, r) THEN "NONCE_REPLAY"
  ELSE "NONE"
PayloadFails(r) ==
  \/ r.shape # "ok"
  \/ Len(r.csv) > maxUploadBytes
  \/ r.meta.fileSizeBytes # Len(r.csv)
  \/ toLowerCase(r.meta.fileSha256) # sha256Hex(r.csv)

\* C21: an upload attempt runs header validation, timestamp skew, identity
\* lookup, replay pre-check, payload intake, signature verification, replay
\* commit and forward in this order, stops at the first stage that fails and
\* reports that stage's error code: the earliest broken rule decides.
C21_EarliestRuleDecides ==
  [][\A a \in Uploads :
       /\ Starts(a) =>
            LET first == FirstFailureAtStart(ureq'[a], nonces) IN
            /\ first # "NONE" => upc'[a] = "done" /\ uresp'[a].errorCode = first
            /\ (first = "NONE" /\ ureq'[a].shape # "notMultipart") => upc'[a] = "intake"
            /\ (first = "NONE" /\ ureq'[a].shape = "notMultipart") =>
                 upc'[a] = "done" /\ uresp'[a].errorCode = "PAYLOAD_INVALID"
       /\ (upc[a] = "intake" /\ upc'[a] # "intake") =>
            IF PayloadFails(ureq[a])
            THEN /\ upc'[a] = "done"
                 /\ uresp'[a].errorCode \in {"PAYLOAD_INVALID", "FILE_TOO_LARGE"}
            ELSE IF ~SignatureMatches(uclient[a], ureq[a])
            THEN upc'[a] = "done" /\ uresp'[a].errorCode = "AUTH_FAILED"
            ELSE IF RowPresent(nonces, ureq[a])
            THEN upc'[a] = "done" /\ uresp'[a].errorCode = "NONCE_REPLAY"
            ELSE upc'[a] = "forwarding" /\ fwd'[a] = fwd[a] + 1 /\ uresp'[a].code = 0
       /\ (upc[a] = "forwarding" /\ upc'[a] # "forwarding") =>
            uresp'[a].errorCode \in {NULL, "DISCORD_FORWARD_FAILED"}]_vars

\* A request with a nonce already seen, an invalid payload and a bad signature
\* was answered NONCE_REPLAY, the error of the earliest of the three stages.
C21_SeveralRulesBroken ==
  \E a, b \in Uploads :
    /\ a # b /\ uresp[a].code = 200 /\ SamePair(a, b)
    /\ RowPresent(nonces, ureq[b])
    /\ PayloadFails(ureq[b]) /\ BadSignature(ureq[b])
    /\ uresp[b].errorCode = "NONCE_REPLAY"

\* ------------------------------------------------------- verified metadata
\* The step of attempt a in which the signature is verified: the step from
\* payload intake on that is not answered for the payload.
VerifiesSignature(a) ==
  /\ upc[a] = "intake" /\ upc'[a] # "intake"
  /\ uresp'[a].errorCode \notin {"PAYLOAD_INVALID", "FILE_TOO_LARGE"}

\* C22: whenever the signature is verified, the hash and the size in the
\* canonical string are the SHA-256 and the byte length of the payload
\* received (a declared hash or size that disagrees has been answered
\* PAYLOAD_INVALID), and the verifiedFileSha256 of a success response is that
\* computed hash.
C22_CanonicalOverVerified ==
  /\ [][\A a \in Uploads :
          VerifiesSignature(a) =>
            /\ handlerCanonical(ureq[a])
                 = buildCanonicalString(
                     [ method |-> <<"POST">>, path |-> <<"/api/v1/training-uploads">>,
                       clientId |-> <<ureq[a].clientId>>,
                       timestamp |-> ureq[a].timestamp, nonce |-> <<ureq[a].nonce>>,
                       fileSha256 |-> sha256Hex(ureq[a].csv),
                       fileSizeBytes |-> Len(ureq[a].csv),
                       schemaVersion |-> ureq[a].meta.schemaVersion ])
            /\ Len(ureq[a].csv) <= maxUploadBytes]_vars
  /\ [](\A a \in Uploads :
          uresp[a].code = 200 => uresp[a].verifiedFileSha256 = sha256Hex(ureq[a].csv))

\* A request declaring its hash in upper case was accepted: the success
\* response carries the computed hash, which is not the declared string.
C22_DeclaredInUpperCase ==
  \E a \in Uploads :
    /\ uresp[a].code = 200
    /\ uresp[a].verifiedFileSha256 = sha256Hex(ureq[a].csv)
    /\ ureq[a].meta.fileSha256 # uresp[a].verifiedFileSha256

\* -------------------------------------------------------------- forwarding
\* C23: within one attempt the forwarder is invoked at most once and never
\* again after it failed, and only in the step in which the attempt's own
\* persistNonce has returned: its row is in the ledger, committed and visible
\* to every other request, when the forward call starts, and the handler
\* writes nothing to the ledger while the call is in flight or when it
\* settles.
C23_ForwardOnceAfterCommit ==
  /\ [](\A a \in Uploads : fwd[a] <= 1 /\ (fwd[a] > 0 => persisted[a]))
  /\ [][\A a \in Uploads :
          /\ fwd'[a] > fwd[a] =>
               /\ upc[a] = "intake" /\ upc'[a] = "forwarding"
               /\ ~persisted[a] /\ persisted'[a]
               /\ ~RowPresent(nonces, ureq[a]) /\ RowPresent(nonces', ureq[a])
          /\ (upc[a] = "forwarding" /\ upc'[a] # "forwarding") =>
               /\ upc'[a] \in {"done", "fatal"}
               /\ fwd' = fwd /\ nonces' = nonces
          /\ upc[a] \in {"done", "fatal"} => fwd'[a] = fwd[a] /\ upc'[a] = upc[a]]_vars

\* While the forward call of one attempt is in flight, another attempt has
\* committed its nonce and started its own forward call.
C23_StoreFreeDuringForward ==
  \E a, b \in Uploads :
    /\ a < b /\ ~SamePair(a, b)
    /\ upc[a] = "forwarding" /\ fwd[a] = 1
    /\ upc[b] = "forwarding" /\ fwd[b] = 1
    /\ RowPresent(nonces, ureq[a]) /\ RowPresent(nonces, ureq[b])

\* ------------------------------------------------------------ audit status
\* C25: an audit row has status FORWARDED and no error code exactly when it
\* is written by the step in which the attempt's forward call returned
\* successfully, the step that answers 200; in every other terminal case the
\* row has status REJECTED and the error code sent to the caller, which is
\* DISCORD_FORWARD_FAILED exactly when the forward call failed.
C25_AuditStatusMatchesOutcome ==
  [][/\ \A row \in upload_audit' \ upload_audit :
          \E a \in Uploads :
            /\ row.request_id = requestId(a)
            /\ upc[a] \in {"idle", "intake", "forwarding"} /\ upc'[a] = "done"
            /\ IF uresp'[a].code = 200
               THEN /\ row.status = "FORWARDED" /\ row.error_code = NULL
                    /\ upc[a] = "forwarding" /\ fwd[a] = 1
               ELSE /\ row.status = "REJECTED"
                    /\ row.error_code # NULL /\ row.error_code = uresp'[a].errorCode
                    /\ (row.error_code = "DISCORD_FORWARD_FAILED")
                         = (upc[a] = "forwarding")
     /\ \A a \in Uploads :
          (upc[a] # "done" /\ upc'[a] = "done") =>
            \E row \in upload_audit' \ upload_audit : row.request_id = requestId(a)]_vars

\* A forwarded attempt and the refused replay of it, each with its audit row.
C25_ForwardedAndReplayAudited ==
  \E a, b \in Uploads :
    /\ SamePair(a, b)
    /\ \E row \in upload_audit :
         /\ row.request_id = requestId(a) /\ row.status = "FORWARDED"
         /\ row.error_code = NULL /\ uresp[a].code = 200
    /\ \E row \in upload_audit :
         /\ row.request_id = requestId(b) /\ row.status = "REJECTED"
         /\ row.error_code = "NONCE_REPLAY" /\ uresp[b].code = 409

\* ---------------------------------------------------------- audit identity
\* C24: an audit row carries a client id only when the attempt established
\* the client's identity, that is when its identity lookup found an active
\* credential; an attempt rejected at header validation, at the skew check or
\* for an unknown or inactive client is audited with the client id unset.
C24_ClientIdOnlyIfEstablished ==
  [][\A a \in Uploads :
       \A row \in upload_audit' \ upload_audit :
         row.request_id = requestId(a) =>
           (row.client_id # NULL) =
             (/\ UploadHeadersSchema(ureq'[a])
              /\ upc[a] = "idle" =>
                   /\ Abs(nowSeconds - Number(ureq'[a].timestamp)) <= maxClockSkewSeconds
                   /\ \E cred \in clients :
                        cred.client_id = ureq'[a].clientId /\ cred.active = 1)]_vars

\* ------------------------------------------------------------------ cleanup
Expired(row) == TextLeq(row.expires_at, toISOString(clock))

\* C26: a failing cleanup changes the outcome of no attempt.  The step that
\* commits a nonce ends, whether its cleanup deleted the expired rows or
\* failed and deleted none, with the attempt's row in the ledger and the
\* forward call started, no response and no audit row written; the periodic
\* task, whose failure changes nothing, stays able to run as long as an
\* expired row is in the ledger.
C26_CleanupFailureHarmless ==
  /\ [][\A a \in Uploads :
          (~persisted[a] /\ persisted'[a]) =>
            /\ upc'[a] = "forwarding" /\ fwd'[a] = 1
            /\ uresp' = uresp /\ upload_audit' = upload_audit
            /\ RowPresent(nonces', ureq[a])
            /\ nonces' \subseteq nonces \cup PairRows(nonces', ureq[a].clientId, ureq[a].nonce)
            /\ \/ \A row \in nonces : row \in nonces'
               \/ \A row \in nonces : (row \in nonces') = ~Expired(row)]_vars
  /\ []((\E row \in nonces : Expired(row)) => ENABLED PeriodicCleanup)

\* An attempt committed its nonce while an expired row stayed in the ledger
\* (its cleanup failed), and was answered 200.
C26_CleanupFailedThenForwarded ==
  \E a \in Uploads :
    /\ uresp[a].code = 200
    /\ \E own, old \in nonces :
         /\ own.client_id = ureq[a].clientId /\ own.nonce = ureq[a].nonce
         /\ old # own /\ TextLeq(old.expires_at, own.seen_at)

\* C27: with nonceTtlSeconds >= 2 * maxClockSkewSeconds, a nonce row is never
\* removable by cleanup while the request that created it could still pass
\* the skew check: once the row of an accepted request with timestamp T has
\* expired (t >= t0 + ttl), |t - T| <= maxClockSkewSeconds fails.
C27_ExpiredMeansOutsideSkew ==
  nonceTtlSeconds >= 2 * maxClockSkewSeconds =>
    \A a \in Uploads :
      \A row \in PairRows(nonces, ureq[a].clientId, ureq[a].nonce) :
        (persisted[a] /\ Expired(row)) =>
          ~isTimestampWithinSkew(Number(ureq[a].timestamp), nowSeconds,
                                 maxClockSkewSeconds)

\* ---------------------------------------------------------------------------
\* C28: what a caller without the secret learns of the ledger
\* ---------------------------------------------------------------------------

\* The outcome of the handler's first step for request r against ledger db.
StartOutcome(r, db) ==
  LET first == FirstFailureAtStart(r, db) IN
  IF first # "NONE" THEN first
  ELSE IF r.shape = "notMultipart" THEN "PAYLOAD_INVALID"
  ELSE "NONE"

\* The statement of C28 as written: an attempt of an active client with an
\* invalid signature is answered with the error code the same request gets
\* against a ledger that lacks its (clientId, nonce) pair.
C28_SameErrorWhateverTheLedger ==
  [][\A a \in Uploads :
       (Starts(a) /\ BadSignature(ureq'[a])) =>
         LET r == ureq'[a]
             without == StartOutcome(r, nonces \ PairRows(nonces, r.clientId, r.nonce)) IN
         IF without = "NONE" THEN upc'[a] = "intake"
         ELSE upc'[a] = "done" /\ uresp'[a].errorCode = without]_vars

\* C28: an attempt of an active client with an invalid signature never
\* changes the ledger, and its answer depends on the ledger only through the
\* presence of its own (clientId, nonce) pair at the replay pre-check: it is
\* NONCE_REPLAY exactly when that row is present and headers and skew are in
\* order, and otherwise the answer the request gets against an empty ledger;
\* past the pre-check the answer is that of the payload or signature stage.
C28_RevealsOnlyOwnPair ==
  [][\A a \in Uploads :
       /\ (Starts(a) /\ BadSignature(ureq'[a])) =>
            LET r == ureq'[a]
                empty == StartOutcome(r, {}) IN
            /\ nonces' = nonces
            /\ IF RowPresent(nonces, r) /\ FirstFailureAtStart(r, {}) = "NONE"
               THEN upc'[a] = "done" /\ uresp'[a].errorCode = "NONCE_REPLAY"
               ELSE IF empty = "NONE" THEN upc'[a] = "intake"
               ELSE upc'[a] = "done" /\ uresp'[a].errorCode = empty
       /\ (upc[a] = "intake" /\ upc'[a] # "intake"
             /\ ~SignatureMatches(uclient[a], ureq[a])) =>
            /\ nonces' = nonces
            /\ upc'[a] = "done"
            /\ uresp'[a].errorCode =
                 (IF ~PayloadFails(ureq[a]) THEN "AUTH_FAILED"
                  ELSE IF Len(ureq[a].csv) > maxUploadBytes THEN "FILE_TOO_LARGE"
                  ELSE "PAYLOAD_INVALID")]_vars

\* A pair committed by its owner, and an attempt naming the same pair under a
\* wrong key and with an intact payload, answered NONCE_REPLAY.
C28_WrongKeyToldOfReplay ==
  \E a, b \in Uploads :
    /\ persisted[a] /\ fwd[a] = 1
    /\ a # b /\ SamePair(a, b)
    /\ BadSignature(ureq[b]) /\ ~PayloadFails(ureq[b])
    /\ upc[b] = "done" /\ uresp[b].errorCode = "NONCE_REPLAY"

\* ---------------------------------------------------------------------------
\* C29: a failing credential insert inside the redemption transaction
\* ---------------------------------------------------------------------------

\* The client id drawn by redemption i is already a credential's primary key,
\* while the invite still has a use left.
InsertCollides(i) ==
  /\ \E row \in clients : row.client_id = rreq[i].clientId
  /\ \E row \in invite_codes :
       row.code_hash = rreq[i].codeHash /\ row.used_count < row.max_uses

\* C29: when the credential insert of the redemption transaction fails on the
\* primary key of clients, the use-count increment of the same transaction is
\* rolled back, no credential row is added or altered, and the failure leaves
\* the handler as an exception, not as INVITE_ALREADY_USED; at all times no
\* two credential rows share a client id.
C29_InsertFailureRollsBack ==
  /\ [][\A i \in Redeems :
          (rpc[i] = "tx" /\ rpc'[i] # "tx" /\ InsertCollides(i)) =>
            /\ invite_codes' = invite_codes
            /\ clients' = clients
            /\ rpc'[i] = "fatal"
            /\ rresp'[i] = NoRedeemResponse]_vars
  /\ [](\A r1, r2 \in clients : r1.client_id = r2.client_id => r1 = r2)

\* A redemption that drew the client id issued to an earlier one ended with
\* an exception; the invite it named still has the use it tried to take.
C29_CollisionWasFatal ==
  \E i, j \in Redeems :
    /\ i # j /\ rresp[j].code = 200 /\ rresp[j].clientId = rreq[i].clientId
    /\ rpc[i] = "fatal" /\ rresp[i] = NoRedeemResponse
    /\ \E row \in invite_codes :
         row.code_hash = rreq[i].codeHash /\ row.used_count < row.max_uses

\* ---------------------------------------------------------------------------
\* C30: replay detection and rows whose expiry has passed
\* ---------------------------------------------------------------------------

\* C30: replay detection looks at the presence of the row alone: for every
\* row of the ledger, whether or not its expiry has passed, hasSeen is true
\* and persist fails, so an attempt naming a pair whose row is present is
\* answered NONCE_REPLAY, at the pre-check if the row is there by then and
\* at the commit otherwise, and leaves the ledger as it is.
C30_PresentRowRejects ==
  /\ [](\A row \in nonces :
          /\ hasSeenNonce(nonces, row.client_id, row.nonce)
          /\ persistNonceFails(nonces, row.client_id, row.nonce))
  /\ [][\A a \in Uploads :
          /\ (Starts(a) /\ FirstFailureAtStart(ureq'[a], {}) = "NONE"
                /\ RowPresent(nonces, ureq'[a])) =>
               /\ upc'[a] = "done" /\ uresp'[a].errorCode = "NONCE_REPLAY"
               /\ nonces' = nonces
          /\ (upc[a] = "intake" /\ upc'[a] # "intake"
                /\ ~PayloadFails(ureq[a]) /\ SignatureMatches(uclient[a], ureq[a])
                /\ RowPresent(nonces, ureq[a])) =>
               /\ upc'[a] = "done" /\ uresp'[a].errorCode = "NONCE_REPLAY"
               /\ nonces' = nonces /\ fwd'[a] = fwd[a]]_vars

\* An attempt whose timestamp is within the skew only from a time on at which
\* the row of its pair had already expired was answered NONCE_REPLAY.
C30_ExpiredRowStillRejects ==
  \E b \in Uploads :
    /\ Number(ureq[b].timestamp) = LateTimestamp
    /\ upc[b] = "done" /\ uresp[b].errorCode = "NONCE_REPLAY"
    /\ \E row \in PairRows(nonces, ureq[b].clientId, ureq[b].nonce) :
         getTime(row.expires_at) <= (LateTimestamp - maxClockSkewSeconds) * TicksPerSecond

\* ---------------------------------------------------------------------------
\* C31: issued credentials are usable at once
\* ---------------------------------------------------------------------------

\* Redemption i answered 200 with the client id that request r names.
IssuedTo(i, r) == rresp[i].code = 200 /\ rresp[i].clientId = r.clientId

\* Request r carries the HMAC of its canonical string under the secret that
\* redemption i returned.
SignedWithIssued(i, r) ==
  toLowerCase(r.signature) = hmacSha256Hex(rresp[i].clientSecret, handlerCanonical(r))

\* C31: from the moment a redemption has answered 200, the credential row it
\* returned is in clients with active = 1, and an upload naming that client
\* id with well-formed headers, a timestamp within the skew, a nonce not in
\* the ledger, a valid payload and a signature made with the returned secret
\* passes the identity lookup and the signature verification and is handed
\* to the forwarder.
C31_IssuedCredentialsUsable ==
  /\ [](\A i \in Redeems :
          rresp[i].code = 200 =>
            [client_id |-> rresp[i].clientId, client_secret |-> rresp[i].clientSecret,
             active |-> 1] \in clients)
  /\ [][\A a \in Uploads : \A i \in Redeems :
          /\ (Starts(a) /\ IssuedTo(i, ureq'[a])
                /\ UploadHeadersSchema(ureq'[a])
                /\ Abs(nowSeconds - Number(ureq'[a].timestamp)) <= maxClockSkewSeconds
                /\ ~RowPresent(nonces, ureq'[a])
                /\ ureq'[a].shape # "notMultipart") =>
               /\ upc'[a] = "intake"
               /\ uclient'[a].client_id = rresp[i].clientId
               /\ uclient'[a].client_secret = rresp[i].clientSecret
          /\ (upc[a] = "intake" /\ upc'[a] # "intake" /\ IssuedTo(i, ureq[a])
                /\ SignedWithIssued(i, ureq[a])
                /\ ~PayloadFails(ureq[a])
                /\ ~RowPresent(nonces, ureq[a])) =>
               /\ upc'[a] = "forwarding"
               /\ fwd'[a] = fwd[a] + 1]_vars

\* An upload under credentials that a redemption of this run returned was
\* forwarded and answered 200.
C31_NewClientForwarded ==
  \E i \in Redeems : \E a \in Uploads :
    /\ IssuedTo(i, ureq[a]) /\ SignedWithIssued(i, ureq[a])
    /\ fwd[a] = 1 /\ uresp[a].code = 200

\* ---------------------------------------------------------------------------
\* C32: every upload attempt ends
\* ---------------------------------------------------------------------------

\* The stages of an attempt in the order the handler passes them.
StageRank(stage) ==
  IF stage = "idle" THEN 0
  ELSE IF stage = "intake" THEN 1
  ELSE IF stage = "forwarding" THEN 2
  ELSE 3

\* Attempt a has ended with one audit row, FORWARDED or REJECTED.
EndedAudited(a) ==
  /\ upc[a] = "done"
  /\ Cardinality(AuditRowsOf(a)) = 1
  /\ \A row \in AuditRowsOf(a) : row.status \in {"FORWARDED", "REJECTED"}

\* Attempt a has ended with an exception: no audit row and no reply of the handler.
EndedFatal(a) ==
  upc[a] = "fatal" /\ AuditRowsOf(a) = {} /\ uresp[a] = NoResponse

====
